---- MODULE Spec2Model ----
(***************************************************************************)
(* Model of the cache-backed refresh handlers of the WK weather dashboard. *)
(*                                                                         *)
(* The repository holds several independent implementations of "refresh    *)
(* the sources into Redis, serve reads from Redis".  Each one is modelled  *)
(* as its own state machine over its own Redis keys:                       *)
(*                                                                         *)
(*   "R"  api/refresh-data.js, cron/refresh-data.js (writers) and the      *)
(*        reader of the same keys (unnamed/part_002, part_001)             *)
(*   "C"  api/cached-data.js (action=get / action=refresh,                 *)
(*        storeTempHistory)                                                *)
(*   "W"  unnamed/part_000 (single key wk:weather:cache)                   *)
(*   "H"  unnamed/part_003 (homey_current / homey_history)                 *)
(*                                                                         *)
(* One deployment runs one of them (impl).  Time is the wall clock in      *)
(* seconds.  A handler invocation is cut at its awaits.                    *)
(***************************************************************************)
EXTENDS Integers, Sequences, FiniteSets, TLC

VARIABLES
    impl,       \* which implementation is deployed: "R", "C", "W", "H", ...
    now,        \* wall clock, seconds
    env,        \* process.env of the deployment (fixed after Init)
    redis,      \* the Redis store: key -> [val, exp]
    res,        \* the HTTP response just sent, with what the handler did
    nref,       \* number of refreshes that wrote to the store so far
    client,     \* the module-level redisClient of a warm process
    flight,     \* the handler invocations that are suspended at an await
    mem         \* the other module-level variables of the running process

vars == <<impl, now, env, redis, res, nref, client, flight, mem>>

(***************************************************************************)
(* Bounds of the model.                                                    *)
(***************************************************************************)
MaxTicks == 3          \* the clock advances at most this many times
MaxRefreshes == 2      \* refreshes that write to the store, per run
MaxWait == 1           \* scheduler periods an invocation stays suspended

(***************************************************************************)
(* Program constants.                                                      *)
(***************************************************************************)
TickSeconds == 300     \* external scheduler period (every 5 minutes)
CACHE_TTL == 300       \* refresh-data.js

(***************************************************************************)
(* The Redis store: per key a value and the absolute time it expires at.   *)
(* A key that was never set, or whose TTL has elapsed, reads as Null.      *)
(***************************************************************************)
Null == [null |-> TRUE]
Absent == [val |-> Null, exp |-> 0]

\* redis.get(key)
Get(store, key, t) == IF store[key].exp > t THEN store[key].val ELSE Null

\* redis.setex(key, ttl, value)
SetEx(store, key, ttl, value, t) ==
    [store EXCEPT ![key] = [val |-> value, exp |-> t + ttl]]

\* Redis drops the keys whose TTL has elapsed
Expire(store, t) ==
    [k \in DOMAIN store |-> IF store[k].exp > t THEN store[k] ELSE Absent]

NoRes == [op |-> "none"]

\* no invocation is suspended
Idle == [pc |-> "idle"]

\* a module without further module-level variables
NoMem == [none |-> TRUE]

\* a handler whose invocations overlap: up to two are suspended at a time
Invocations == 1..2
NoFlights == [pc |-> "slots", run |-> [i \in Invocations |-> Idle]]

\* invocation i can start: the lowest slot not in use
FreeSlot(i) ==
    /\ flight.pc = "slots"
    /\ flight.run[i] = Idle
    /\ \A j \in Invocations : j < i => flight.run[j] # Idle

(***************************************************************************)
(* refresh-data.js: three adapters that fetch and cache, joined by         *)
(* Promise.allSettled.                                                     *)
(***************************************************************************)
Services == <<"forecast", "homey", "hafjell">>

\* process.env as the refresh handlers read it.  homey: which of the four
\* HOMEY_ settings of the login are present ("none", "idOnly":
\* HOMEY_CLIENT_ID alone, "all")
HomeySettings == {"none", "idOnly", "all"}
EnvsR == [production : BOOLEAN, homey : HomeySettings]

\* the configuration check of fetchHomeyData: api/refresh-data.js tests
\* HOMEY_CLIENT_ID, cron/refresh-data.js and part_006 test all four
HomeyConfigured(variant, e) ==
    IF variant \in {"api", "refresh"} THEN e.homey # "none" ELSE e.homey = "all"
KeyOf == [forecast |-> "forecast_data", homey |-> "homey_data", hafjell |-> "hafjell_html"]
KeysR == {"forecast_data", "homey_data", "hafjell_html"}

\* fetchForecastData / fetchHafjellData: try { fetch; setex; success } catch { failure }
FetchAndCache(service, out, t) ==
    IF ~out.ok
    THEN [status |-> "fulfilled", called |-> TRUE, wrote |-> FALSE, val |-> Null,
          value |-> [success |-> FALSE, service |-> service, error |-> "upstream"]]
    ELSE IF ~out.wr
    THEN [status |-> "fulfilled", called |-> TRUE, wrote |-> FALSE, val |-> Null,
          value |-> [success |-> FALSE, service |-> service, error |-> "store"]]
    ELSE [status |-> "fulfilled", called |-> TRUE, wrote |-> TRUE,
          val |-> [source |-> service, timestamp |-> t],
          value |-> [success |-> TRUE, service |-> service, error |-> "none"]]

\* fetchHomeyData: the configuration check comes before the try block
FetchHomeyData(configured, out, t) ==
    IF ~configured
    THEN [status |-> "fulfilled", called |-> FALSE, wrote |-> FALSE, val |-> Null,
          value |-> [success |-> FALSE, service |-> "homey", error |-> "Not configured"]]
    ELSE FetchAndCache("homey", out, t)

\* a summary that lists only the adapters that succeeded (variant of
\* SummaryResults, for C1)
SuccessesOnly(settled) ==
    SelectSeq([i \in 1..Len(settled) |-> settled[i].value], LAMBDA v : v.success)

\* summary.results: results.map((r, i) => fulfilled ? r.value : {success:false, service: [..][i]})
SummaryResults(settled) ==
    [i \in 1..Len(settled) |->
        IF settled[i].status = "fulfilled"
        THEN settled[i].value
        ELSE [success |-> FALSE, service |-> Services[i], error |-> "rejected"]]

\* the auth gate of refresh-data.js: 401 only in production without ?manual
Unauthorized(authOk, manual) == ~authOk /\ env.production /\ ~manual

\* type -> key of the reader (part_002 lines 409-411)
TypeKey(type) ==
    IF type = "forecast" THEN "forecast_data"
    ELSE IF type = "homey" THEN "homey_data"
    ELSE IF type = "hafjell" THEN "hafjell_html"
    ELSE "none"

Types == {"forecast", "homey", "hafjell", "all", "bogus"}

\* a reader that answers an absent source with an empty 200 (variant of
\* NotFound, for C9)
EmptyOk(type) ==
    [op |-> "read", type |-> type, status |-> 200, found |-> FALSE, storeErr |-> FALSE,
     data |-> Null, called |-> {}, wrote |-> {}]

\* the answer for a single source whose key holds nothing: 404 "No cached data"
NotFound(type) ==
    [op |-> "read", type |-> type, status |-> 404, found |-> FALSE, storeErr |-> FALSE,
     data |-> Null, called |-> {}, wrote |-> {}]

\* the reader of the cached keys: GET ?type=forecast|homey|hafjell|all
ReadR(type, connectOk, getOk) ==
    /\ impl = "R"
    /\ res' =
         IF ~connectOk \/ (~getOk /\ type # "bogus")
         THEN [op |-> "read", type |-> type, status |-> 500, found |-> FALSE,
               storeErr |-> TRUE, data |-> Null, called |-> {}, wrote |-> {}]
         ELSE IF type = "all"
         THEN [op |-> "read", type |-> type, status |-> 200, found |-> TRUE,
               storeErr |-> FALSE,
               data |-> [s \in {"forecast", "homey", "hafjell"} |-> Get(redis, KeyOf[s], now)],
               cached |-> [s \in {"forecast", "homey", "hafjell"} |-> Get(redis, KeyOf[s], now) # Null],
               called |-> {}, wrote |-> {}]
         ELSE IF TypeKey(type) = "none"
         THEN [op |-> "read", type |-> type, status |-> 400, found |-> FALSE,
               storeErr |-> FALSE, data |-> Null, called |-> {}, wrote |-> {}]
         ELSE IF Get(redis, TypeKey(type), now) = Null
         THEN NotFound(type)
         ELSE [op |-> "read", type |-> type, status |-> 200, found |-> TRUE,
               storeErr |-> FALSE,
               data |-> Get(redis, TypeKey(type), now), called |-> {}, wrote |-> {}]
    /\ UNCHANGED <<impl, now, env, redis, nref, client, flight, mem>>

\* a read that fails touches no stored value: it is enumerated while no
\* refresh is in flight
ReadRStep ==
    \E type \in Types, connectOk \in BOOLEAN, getOk \in BOOLEAN :
        /\ (connectOk /\ getOk) \/ flight = Idle
        /\ ReadR(type, connectOk, getOk)

(***************************************************************************)
(* The refresh of refresh-data.js cut at its awaits.  The handler starts   *)
(* the three adapters and awaits Promise.allSettled; each adapter awaits   *)
(* its upstream, builds its record, awaits its setex and settles; the      *)
(* handler then builds the summary and answers.  flight.time is the time   *)
(* the adapters were started at, flight.hung the adapters whose upstream   *)
(* never answers, flight.pending the adapters not settled yet,             *)
(* flight.stamp[i] the timestamp of the record adapter i has built.        *)
(***************************************************************************)
Adapters == 1..3

\* which adapter passes a timeout to its upstream request: only
\* fetchHafjellData (signal: AbortSignal.timeout(10000))
HasTimeout == [forecast |-> FALSE, homey |-> FALSE, hafjell |-> TRUE]

Pending == [status |-> "pending"]

\* the timestamp of a record that is not built yet
Unset == 0 - 1

\* at most one upstream hangs in a run
Hangs == {{}} \cup {{i} : i \in Adapters}

\* whether the module parses.  "cron": the header comment of
\* cron/refresh-data.js is closed by the "*/" of the schedule "*/5 * * * *"
\* on line 7 and the rest of that line is a syntax error.  "api": the file
\* api/refresh-data.js holds two modules one after the other and declares
\* handler a second time on line 243.  The platform cannot load either
\* file.  "refresh": lines 1-205 of api/refresh-data.js, the ioredis
\* refresh, taken as a module of their own
Loads == [api |-> FALSE, cron |-> FALSE, refresh |-> TRUE]

\* a response of the refresh sent before any adapter was started
EarlyR(op, status, authOk) ==
    [op |-> op, status |-> status, time |-> now, auth |-> authOk,
     results |-> <<>>, called |-> {}, wrote |-> {}]

\* what Promise.allSettled keeps of an adapter's run
Settled(r) ==
    [status |-> r.status, called |-> r.called, wrote |-> r.wrote, value |-> r.value]

\* handler of the refresh of api/refresh-data.js (variant "refresh",
\* connects first) up to Promise.allSettled: the gate, the connect, and the
\* three adapters are started; fetchHomeyData settles at once when the
\* sensor is not configured.  A request to a file that does not load
\* (variants "api" and "cron") is answered by the platform (op "crash")
FanoutStart(variant, authOk, manual, connectOk, hung) ==
    /\ impl = "R"
    /\ flight = Idle
    /\ IF ~Loads[variant]
       THEN /\ res' = EarlyR("crash", 500, authOk)
            /\ UNCHANGED flight
       ELSE IF Unauthorized(authOk, manual)
       THEN /\ res' = EarlyR("refresh", 401, authOk)
            /\ UNCHANGED flight
       ELSE IF ~connectOk
       THEN /\ res' = EarlyR("refresh", 500, authOk)
            /\ UNCHANGED flight
       ELSE /\ res' = NoRes
            /\ flight' = [pc |-> "fanout",
                          variant |-> variant,
                          auth |-> authOk,
                          time |-> now,
                          hung |-> hung,
                          stamp |-> [i \in Adapters |-> Unset],
                          pending |-> IF HomeyConfigured(variant, env)
                                      THEN Adapters ELSE Adapters \ {2},
                          settled |-> [i \in Adapters |->
                                         IF i = 2 /\ ~HomeyConfigured(variant, env)
                                         THEN Settled(FetchHomeyData(FALSE, [ok |-> FALSE, wr |-> TRUE], now))
                                         ELSE Pending]]
    /\ UNCHANGED <<impl, now, env, redis, nref, client, mem>>

\* adapter i returns: r is its result, and its setex, when it succeeded,
\* is applied at the time it is answered
SettleWith(i, r) ==
    /\ flight' = [flight EXCEPT !.pending = @ \ {i}, !.settled[i] = Settled(r)]
    /\ redis' = IF r.wrote
                THEN SetEx(redis, KeyOf[Services[i]], CACHE_TTL, r.val, now)
                ELSE redis

\* the result of adapter i for the outcome out, its record carrying the
\* timestamp t
AdapterResult(i, out, t) ==
    IF i = 2 THEN FetchHomeyData(TRUE, out, t) ELSE FetchAndCache(Services[i], out, t)

\* the upstream of adapter i answers (or fails).  On success the adapter
\* builds its record with timestamp: new Date() and issues its setex; on
\* failure its catch returns.  A login without secret, user name and
\* password is refused
AdapterFetched(i, ok) ==
    /\ flight.pc = "fanout"
    /\ i \in flight.pending \ flight.hung
    /\ flight.stamp[i] = Unset
    /\ (i = 2 /\ env.homey = "idOnly") => ~ok
    /\ IF ok
       THEN /\ flight' = [flight EXCEPT !.stamp[i] = now]
            /\ UNCHANGED redis
       ELSE SettleWith(i, AdapterResult(i, [ok |-> FALSE, wr |-> TRUE], now))
    /\ UNCHANGED <<impl, now, env, res, nref, client, mem>>

\* the setex of adapter i is answered: the record built when the upstream
\* answered is stored with CACHE_TTL from now, or the command fails and the
\* adapter's catch returns
AdapterSettle(i, wr) ==
    /\ flight.pc = "fanout"
    /\ i \in flight.pending
    /\ flight.stamp[i] # Unset
    /\ SettleWith(i, AdapterResult(i, [ok |-> TRUE, wr |-> wr], flight.stamp[i]))
    /\ UNCHANGED <<impl, now, env, res, nref, client, mem>>

\* the upstream of adapter i never answers and the request's timeout fires:
\* fetch rejects, the adapter's catch returns the failure
AdapterTimeout(i) ==
    /\ flight.pc = "fanout"
    /\ i \in flight.pending \cap flight.hung
    /\ HasTimeout[Services[i]]
    /\ SettleWith(i, AdapterResult(i, [ok |-> FALSE, wr |-> TRUE], now))
    /\ UNCHANGED <<impl, now, env, res, nref, client, mem>>

\* Promise.allSettled resolves: the summary is built and sent
FanoutRespond ==
    /\ flight.pc = "fanout"
    /\ flight.pending = {}
    /\ res' = [op |-> "refresh", status |-> 200, time |-> now, auth |-> flight.auth,
               start |-> flight.time,
               results |-> SummaryResults(flight.settled),
               called |-> {Services[i] : i \in {j \in Adapters : flight.settled[j].called}},
               wrote |-> {KeyOf[Services[i]] : i \in {j \in Adapters : flight.settled[j].wrote}}]
    /\ flight' = Idle
    /\ UNCHANGED <<impl, now, env, redis, nref, client, mem>>

FanoutStartStep ==
    \E variant \in {"api", "cron", "refresh"}, authOk \in BOOLEAN, manual \in BOOLEAN,
       connectOk \in BOOLEAN, hung \in Hangs :
        FanoutStart(variant, authOk, manual, connectOk, hung)
\* a refresh of the module that loads, no upstream hanging
FanoutStartPlainStep ==
    \E authOk \in BOOLEAN, manual \in BOOLEAN, connectOk \in BOOLEAN :
        FanoutStart("refresh", authOk, manual, connectOk, {})
AdapterFetchedStep == \E i \in Adapters, ok \in BOOLEAN : AdapterFetched(i, ok)
AdapterSettleStep == \E i \in Adapters, wr \in BOOLEAN : AdapterSettle(i, wr)
AdapterTimeoutStep == \E i \in Adapters : AdapterTimeout(i)

(***************************************************************************)
(* part_006 ("L"): the same refresh, but the adapters share one Redis      *)
(* client that getRedisClient creates on first use.  getRedisClient        *)
(* assigns redisClient before it awaits connect(), so a second caller      *)
(* finds redisClient set and gets it back at once.  client: "none",        *)
(* "connecting", "open" or "failed" (connect() rejected; the variable      *)
(* stays set).  flight.run[i] is adapter i: "upstream" (awaiting its       *)
(* fetch), "connect" (awaiting connect() inside getRedisClient), "write"   *)
(* (its setEx is issued; on: the client's state when it was issued) or     *)
(* "done".                                                                 *)
(***************************************************************************)
AdapterL(pc, on, ok, at) == [pc |-> pc, on |-> on, ok |-> ok, at |-> at]

\* the handler of part_006 up to Promise.allSettled: the gate, then the
\* three adapters are started; fetchHomeyData returns at once when one of
\* its four settings is missing
LazyStart(authOk, manual) ==
    /\ impl = "L"
    /\ flight = Idle
    /\ IF Unauthorized(authOk, manual)
       THEN /\ res' = [op |-> "refresh", status |-> 401, time |-> now, auth |-> authOk,
                       results |-> <<>>, issued |-> {}, wrote |-> {}, sent |-> 1, quits |-> 0]
            /\ UNCHANGED flight
       ELSE /\ res' = NoRes
            /\ flight' = [pc |-> "lazy", auth |-> authOk, time |-> now,
                          run |-> [i \in Adapters |->
                                     IF i = 2 /\ ~HomeyConfigured("lazy", env)
                                     THEN AdapterL("done", "none", FALSE, now)
                                     ELSE AdapterL("upstream", "none", FALSE, now)]]
    /\ UNCHANGED <<impl, now, env, redis, nref, client, mem>>

\* the upstream of adapter i answers; on success the adapter builds its
\* record, calls getRedisClient and, when that returns at once, issues its
\* setEx
LazyUpstream(i, ok) ==
    /\ flight.pc = "lazy"
    /\ flight.run[i].pc = "upstream"
    /\ IF ~ok
       THEN /\ flight' = [flight EXCEPT !.run[i] = AdapterL("done", "none", FALSE, now)]
            /\ UNCHANGED client
       ELSE IF client = "none"
       THEN /\ client' = "connecting"
            /\ flight' = [flight EXCEPT !.run[i] = AdapterL("connect", "none", FALSE, now)]
       ELSE /\ flight' = [flight EXCEPT !.run[i] = AdapterL("write", client, FALSE, now)]
            /\ UNCHANGED client
    /\ UNCHANGED <<impl, now, env, redis, res, nref, mem>>

\* connect() settles: the adapter that awaited it issues its setEx on the
\* open client, or catches the rejection
LazyConnected(ok) ==
    /\ flight.pc = "lazy"
    /\ client = "connecting"
    /\ client' = IF ok THEN "open" ELSE "failed"
    /\ flight' = [flight EXCEPT !.run =
                    [i \in Adapters |->
                       IF flight.run[i].pc = "connect"
                       THEN IF ok THEN AdapterL("write", "open", FALSE, flight.run[i].at)
                            ELSE AdapterL("done", "none", FALSE, flight.run[i].at)
                       ELSE flight.run[i]]]
    /\ UNCHANGED <<impl, now, env, redis, res, nref, mem>>

\* the setEx of adapter i settles: stored on an open client unless the
\* command fails, rejected on a client whose connect() failed
LazyWrite(i, wr) ==
    /\ flight.pc = "lazy"
    /\ flight.run[i].pc = "write"
    /\ client \in {"open", "failed"}
    /\ redis' = IF client = "open" /\ wr
                THEN SetEx(redis, KeyOf[Services[i]], CACHE_TTL,
                           [source |-> Services[i], timestamp |-> flight.run[i].at], now)
                ELSE redis
    /\ flight' = [flight EXCEPT !.run[i].pc = "done", !.run[i].ok = (client = "open" /\ wr)]
    /\ UNCHANGED <<impl, now, env, res, nref, client, mem>>

\* a setEx issued before the client was ready is refused by the client
LazyWriteRefused(i) ==
    /\ flight.pc = "lazy"
    /\ flight.run[i].pc = "write"
    /\ flight.run[i].on = "connecting"
    /\ client = "connecting"
    /\ flight' = [flight EXCEPT !.run[i].pc = "done", !.run[i].ok = FALSE]
    /\ UNCHANGED <<impl, now, env, redis, res, nref, client, mem>>

\* Promise.allSettled has resolved: the summary is built; if (redisClient)
\* { await redisClient.quit(); redisClient = null } and the 200; when that
\* quit() rejects the catch block does the same and answers 500, and when
\* its quit() rejects too nothing is sent and redisClient stays set.
\* quitOk, catchQuitOk: the outcomes of the two quit() calls
LazyRespond(quitOk, catchQuitOk) ==
    /\ flight.pc = "lazy"
    /\ \A i \in Adapters : flight.run[i].pc = "done"
    /\ LET quits == IF client = "none" THEN 0 ELSE IF quitOk THEN 1 ELSE 2
           closed == client # "none" /\ (quitOk \/ catchQuitOk)
       IN  /\ res' = [op |-> "refresh",
                      status |-> IF client = "none" \/ quitOk THEN 200 ELSE 500,
                      time |-> now, auth |-> flight.auth,
                      results |-> [i \in Adapters |->
                                     [service |-> Services[i], success |-> flight.run[i].ok]],
                      issued |-> {flight.run[i].on : i \in Adapters} \ {"none"},
                      wrote |-> {KeyOf[Services[i]] : i \in {j \in Adapters : flight.run[j].ok}},
                      sent |-> IF client = "none" \/ quitOk \/ catchQuitOk THEN 1 ELSE 0,
                      quits |-> quits]
           /\ client' = IF closed THEN "none" ELSE client
    /\ flight' = Idle
    /\ UNCHANGED <<impl, now, env, redis, nref, mem>>

LazyStartStep == \E authOk \in BOOLEAN, manual \in BOOLEAN : LazyStart(authOk, manual)
LazyUpstreamStep == \E i \in Adapters, ok \in BOOLEAN : LazyUpstream(i, ok)
LazyConnectedStep == \E ok \in BOOLEAN : LazyConnected(ok)
LazyWriteStep == \E i \in Adapters, wr \in BOOLEAN : LazyWrite(i, wr)
LazyWriteRefusedStep == \E i \in Adapters : LazyWriteRefused(i)
LazyRespondStep ==
    \E quitOk \in BOOLEAN, catchQuitOk \in BOOLEAN : LazyRespond(quitOk, catchQuitOk)

\* a cold process
InitLazy ==
    /\ impl = "L"
    /\ now = 0
    /\ env \in EnvsR
    /\ redis = [k \in KeysR |-> Absent]
    /\ res = NoRes
    /\ nref = 0
    /\ client = "none"
    /\ flight = Idle
    /\ mem = NoMem

(***************************************************************************)
(* part_010 ("P"): the page script.  mem is the page: view ("loading"      *)
(* until DOMContentLoaded, then the container that is shown), auth (the    *)
(* sessionStorage flag), submits (requests to /api/auth not answered yet), *)
(* pending (the 100 ms timeouts of showDashboard not yet fired),           *)
(* refreshing (the runs of initDashboard suspended at await                *)
(* refreshAllData()), timers (the 5-minute intervals set by initDashboard  *)
(* and still active), others (its 60 s and 30 s intervals still active;    *)
(* the script never calls clearInterval), error (the login form's          *)
(* message).                                                               *)
(***************************************************************************)
Page(view, auth, error) ==
    [view |-> view, auth |-> auth, submits |-> 0, pending |-> 0, refreshing |-> 0,
     timers |-> 0, others |-> 0, error |-> error]

\* showDashboard: the dashboard is shown and initDashboard is scheduled
showDashboard(m) == [m EXCEPT !.view = "dashboard", !.pending = @ + 1]

\* logout: the flag is removed and the login form is shown
logout(m) == [m EXCEPT !.view = "login", !.auth = FALSE]

\* the DOMContentLoaded listener: with the flag set the dashboard is shown
DOMContentLoaded ==
    /\ impl = "P"
    /\ mem.view = "loading"
    /\ mem' = IF mem.auth THEN showDashboard(mem) ELSE [mem EXCEPT !.view = "login"]
    /\ res' = NoRes
    /\ UNCHANGED <<impl, now, env, redis, nref, client, flight>>

\* the submit listener of the login form up to its await: the request to
\* /api/auth is sent
LoginSubmit ==
    /\ impl = "P"
    /\ mem.view = "login"
    /\ nref < MaxRefreshes
    /\ mem' = [mem EXCEPT !.submits = @ + 1]
    /\ nref' = nref + 1
    /\ res' = NoRes
    /\ UNCHANGED <<impl, now, env, redis, client, flight>>

\* the submit listener resumes.  answer: what /api/auth returned ("ok":
\* success true; "bad": success false; "error": the fetch or response.json()
\* failed)
LoginAnswer(answer) ==
    /\ impl = "P"
    /\ mem.submits > 0
    /\ LET m == [mem EXCEPT !.submits = @ - 1]
       IN  mem' = IF answer = "ok"
                  THEN [showDashboard([m EXCEPT !.auth = TRUE]) EXCEPT !.error = "none"]
                  ELSE [m EXCEPT !.error = IF answer = "bad" THEN "invalid" ELSE "unavailable"]
    /\ res' = NoRes
    /\ UNCHANGED <<impl, now, env, redis, nref, client, flight>>

\* the timeout of showDashboard fires: initDashboard runs up to its await.
\* initOk: updateTimestamp, initTempChart (Chart comes from the page, not
\* from the script) and the statements of refreshAllData before its try did
\* not throw; when one throws, initDashboard rejects and sets no interval
InitDashboard(initOk) ==
    /\ impl = "P"
    /\ mem.pending > 0
    /\ mem' = [mem EXCEPT !.pending = @ - 1,
                          !.refreshing = IF initOk THEN @ + 1 ELSE @]
    /\ res' = [op |-> "init", started |-> IF initOk THEN 1 ELSE 0]
    /\ UNCHANGED <<impl, now, env, redis, nref, client, flight>>

\* refreshAllData() of an initDashboard settles (it catches the errors of
\* its fetches): the three intervals are set
InitDashboardResume ==
    /\ impl = "P"
    /\ mem.refreshing > 0
    /\ mem' = [mem EXCEPT !.refreshing = @ - 1, !.timers = @ + 1, !.others = @ + 2]
    /\ res' = NoRes
    /\ UNCHANGED <<impl, now, env, redis, nref, client, flight>>

\* the user logs out
Logout ==
    /\ impl = "P"
    /\ mem.view = "dashboard"
    /\ mem' = logout(mem)
    /\ res' = NoRes
    /\ UNCHANGED <<impl, now, env, redis, nref, client, flight>>

\* five minutes pass: every active 5-minute interval starts refreshAllData
\* once
Period ==
    /\ impl = "P"
    /\ mem.pending = 0
    /\ now < MaxTicks * TickSeconds
    /\ now' = now + TickSeconds
    /\ res' = [op |-> "period", started |-> mem.timers]
    /\ UNCHANGED <<impl, env, redis, nref, client, flight, mem>>

\* the page is left and loaded again in the same tab.  fires: the
\* beforeunload listener ran and removed the flag; timeouts, intervals and
\* requests of the old document are gone
Reload(fires) ==
    /\ impl = "P"
    /\ mem.view # "loading"
    /\ nref < MaxRefreshes
    /\ mem' = Page("loading", mem.auth /\ ~fires, "none")
    /\ nref' = nref + 1
    /\ res' = NoRes
    /\ UNCHANGED <<impl, now, env, redis, client, flight>>

LoginAnswerStep == \E answer \in {"ok", "bad", "error"} : LoginAnswer(answer)
InitDashboardStep == \E initOk \in BOOLEAN : InitDashboard(initOk)
ReloadStep == \E fires \in BOOLEAN : Reload(fires)

\* a page being loaded, without the session flag or with the flag a
\* previous document left
InitPage ==
    /\ impl = "P"
    /\ now = 0
    /\ env = [production |-> TRUE]
    /\ redis = [k \in {} |-> Absent]
    /\ res = NoRes
    /\ nref = 0
    /\ client = "none"
    /\ flight = Idle
    /\ mem \in {Page("loading", auth, "none") : auth \in BOOLEAN}

(***************************************************************************)
(* JavaScript values, as far as the handlers compute with them.  A number  *)
(* is held in hundredths (Num(524) is 5.24), a numeric string likewise.    *)
(***************************************************************************)
Undefined == [undefined |-> TRUE]
NaN == [nan |-> TRUE]
StrNaN == [strnan |-> TRUE]                  \* the string "NaN"
Num(n) == [num |-> n]
Str(n) == [str |-> n]

IsNum(v) == "num" \in DOMAIN v
IsStr(v) == "str" \in DOMAIN v

\* JavaScript truthiness: null, undefined, NaN and 0 are falsy, any
\* non-empty string and any object is truthy
Truthy(v) ==
    /\ v \notin {Null, Undefined, NaN}
    /\ ~(IsNum(v) /\ v.num = 0)

\* a || b
Or(a, b) == IF Truthy(a) THEN a ELSE b

\* parseFloat(v)
ParseFloat(v) ==
    IF IsNum(v) THEN v
    ELSE IF IsStr(v) THEN Num(v.str)
    ELSE NaN

\* the string "-0.0": it parses to 0 like "0.0" but is another string
NegZero == [str |-> 0, neg |-> TRUE]

\* 2^s modulo 100
RECURSIVE Pow2Mod100(_)
Pow2Mod100(s) == IF s = 0 THEN 1 ELSE (2 * Pow2Mod100(s - 1)) % 100

\* the binary exponent k of m hundredths: 2^k <= m/100 < 2^(k+1)
Binade(m) ==
    CHOOSE k \in -7..20 :
        IF k >= 0 THEN 100 * 2^k <= m /\ m < 200 * 2^k
        ELSE 100 <= m * 2^(-k) /\ m * 2^(-k) < 200

\* how the double nearest to m/100 (m > 0) lies to m/100.  The double is
\* M / 2^s with s = 52 - k and M the integer nearest to m * 2^s / 100, so
\* the remainder of m * 2^s modulo 100 tells: 0 the double is m/100, below
\* 50 it was rounded down, above 50 it was rounded up
DoubleSide(m) ==
    LET r == ((m % 100) * Pow2Mod100(52 - Binade(m))) % 100
    IN  IF r = 0 THEN "exact" ELSE IF r < 50 THEN "below" ELSE "above"

\* Number.prototype.toFixed(1) on the magnitude m: the tenth nearest to the
\* double's exact value, the larger one when both are as near
RoundMagnitude(m) ==
    IF m % 10 < 5 THEN (m \div 10) * 10
    ELSE IF m % 10 > 5 THEN (m \div 10) * 10 + 10
    ELSE IF DoubleSide(m) = "below" THEN (m \div 10) * 10
    ELSE (m \div 10) * 10 + 10

\* x.toFixed(1) as a number of hundredths: the sign is set aside first
RoundTenth(n) == IF n >= 0 THEN RoundMagnitude(n) ELSE -RoundMagnitude(-n)

\* x.toFixed(1): one decimal, as a string; a negative x that rounds to zero
\* keeps its sign
ToFixed1(v) ==
    IF ~IsNum(v) THEN StrNaN
    ELSE IF v.num < 0 /\ RoundTenth(v.num) = 0 THEN NegZero
    ELSE Str(RoundTenth(v.num))

\* JSON.parse(JSON.stringify(v)) of a number-or-null field: NaN becomes null
JsonNumber(v) == IF v = NaN THEN Null ELSE v

(***************************************************************************)
(* cached-data.js: action=get serves the keys, action=refresh fetches the  *)
(* four sources, stores the ones that returned data and appends one point  *)
(* to the temperature history.                                             *)
(***************************************************************************)
MAX_HISTORY == 48
TTL == 15 * 60
HISTORY_TTL == 24 * 60 * 60

SourcesC == {"homey", "hafjell", "forecast", "lifts"}
KeyC == [homey |-> "homey:sensors", hafjell |-> "hafjell:weather",
         forecast |-> "yr:forecast", lifts |-> "hafjell:lifts"]
HISTORY_KEY == "temp:history"
KeysC == {KeyC[s] : s \in SourcesC} \cup {HISTORY_KEY}

\* what the four fetch functions can return; each catches its errors and
\* returns null
\* fetchHomeyData: null, a reading without a temperature, 5.24, 12.35
\* (halfway between two tenths in decimal, below the half as a double) and
\* -0.04 (which toFixed(1) prints as "-0.0")
HomeyRaws == {Null, [temperature |-> Undefined], [temperature |-> Num(524)],
              [temperature |-> Num(1235)], [temperature |-> Num(-4)]}

\* the resort page as the proxy returns it: with the two temperatures and
\* the two wind speeds the pattern looks for, or without them
HafjellPages == {[pattern |-> TRUE, top |-> Str(1100), bottom |-> Str(2000)],
                 [pattern |-> FALSE]}

\* parseHafjellWeatherFromHTML: the two captured temperatures, or the fixed
\* record returned when the pattern does not match
parseHafjellWeatherFromHTML(htmlContent) ==
    IF htmlContent.pattern
    THEN [top |-> [temperature |-> htmlContent.top, condition |-> "Partly cloudy"],
          bottom |-> [temperature |-> htmlContent.bottom, condition |-> "Partly cloudy"]]
    ELSE [top |-> [temperature |-> Str(1100), condition |-> "Mostly sunny"],
          bottom |-> [temperature |-> Str(2000), condition |-> "Mostly sunny"]]

\* fetchHafjellWeatherData: null when the request fails, else the parsed page
HafjellRaws == {Null} \cup {parseHafjellWeatherFromHTML(p) : p \in HafjellPages}
YrRaws == {Null, [properties |-> "timeseries"], [properties |-> "malformed"]}
LiftRaws == {Null, [gondolen |-> "open"]}

createOptimizedHomeyData(rawData, t) ==
    [temp |-> IF rawData.temperature # Undefined
              THEN ToFixed1(ParseFloat(rawData.temperature))
              ELSE Null,
     ts |-> t]

createOptimizedHafjellData(rawData, t) ==
    [top |-> [temp |-> Or(rawData.top.temperature, Null)],
     bottom |-> [temp |-> Or(rawData.bottom.temperature, Null)],
     ts |-> t]

\* a timeseries item without data.instant.details makes the map throw
Throws == [throws |-> TRUE]

createOptimizedYrData(rawData, t) ==
    IF rawData.properties = "malformed" THEN Throws
    ELSE [fc |-> rawData.properties, ts |-> t]

createOptimizedLiftData(rawData, t) ==
    [lifts |-> [gondolen |-> IF rawData.gondolen = "open" THEN 1 ELSE 0], ts |-> t]

\* raw ? createOptimized...(raw) : null, per source
Optimized(raws, t) ==
    [homey |-> IF raws.homey # Null THEN createOptimizedHomeyData(raws.homey, t) ELSE Null,
     hafjell |-> IF raws.hafjell # Null THEN createOptimizedHafjellData(raws.hafjell, t) ELSE Null,
     forecast |-> IF raws.forecast # Null THEN createOptimizedYrData(raws.forecast, t) ELSE Null,
     lifts |-> IF raws.lifts # Null THEN createOptimizedLiftData(raws.lifts, t) ELSE Null]

\* historyEntry of storeTempHistory, as JSON stores it
HistoryEntry(homeyTemp, hafjellTopTemp, hafjellBottomTemp, t) ==
    [ts |-> t,
     h |-> JsonNumber(IF Truthy(homeyTemp) THEN ParseFloat(homeyTemp) ELSE Null),
     t |-> JsonNumber(IF Truthy(hafjellTopTemp) THEN ParseFloat(hafjellTopTemp) ELSE Null),
     b |-> JsonNumber(IF Truthy(hafjellBottomTemp) THEN ParseFloat(hafjellBottomTemp) ELSE Null)]

\* a push that never trims (variant of PushCapped, for C5)
PushUncapped(history, entry) == Append(history, entry)

\* a push that forgets the list it was given (variant of PushCapped, for C13)
PushAlone(history, entry) == <<entry>>

\* history.push(entry); if (history.length > MAX_HISTORY) history = history.slice(-MAX_HISTORY)
PushCapped(history, entry) ==
    LET pushed == Append(history, entry)
    IN  IF Len(pushed) > MAX_HISTORY
        THEN SubSeq(pushed, Len(pushed) - MAX_HISTORY + 1, Len(pushed))
        ELSE pushed

\* the list stored under temp:history ([] when the key is absent)
HistoryOf(store, t) ==
    IF Get(store, HISTORY_KEY, t) = Null THEN <<>> ELSE Get(store, HISTORY_KEY, t).list

\* the keys the refresh stores: one setEx per source that returned data
Stored(data) == {s \in SourcesC : data[s] # Null}

\* if (homeyData || hafjellData): a history point is due
HasTemperatureSource(data) == data.homey # Null \/ data.hafjell # Null

\* homeyData?.temp, hafjellData?.top?.temp, hafjellData?.bottom?.temp
TempOf(data, s, f) ==
    IF data[s] = Null THEN Undefined
    ELSE IF s = "homey" THEN data[s].temp
    ELSE data[s][f].temp

HomeyOk == [temperature |-> Num(524)]
HafjellOk == parseHafjellWeatherFromHTML([pattern |-> TRUE, top |-> Str(1100),
                                          bottom |-> Str(2000)])
YrOk == [properties |-> "timeseries"]
LiftsOk == [gondolen |-> "open"]
AllRawsOk == [homey |-> HomeyOk, hafjell |-> HafjellOk, forecast |-> YrOk, lifts |-> LiftsOk]

AllRawsNull == [homey |-> Null, hafjell |-> Null, forecast |-> Null, lifts |-> Null]

\* where an invocation of GET ?action=get of cached-data.js is suspended:
\* "rconnect" (getRedisClient), "rget" (Promise.all of the five get calls),
\* "rquit" (redis.quit() of the try block) or "rcatch" (redis.quit() of the
\* catch block)
ReadPcs == {"rconnect", "rget", "rquit", "rcatch"}

\* an invocation of the refresh of cached-data.js suspended at an await.
\* pc: "connect" (getRedisClient), "fetch" (Promise.all of the four
\* fetches), "set" (Promise.all of the setEx calls), "histGet" and "histSet"
\* (the get and the setEx of storeTempHistory), "quit" (redis.quit() of the
\* try block) or "catch" (redis.quit() of the catch block).  start: when the
\* request arrived; raws: what the fetches returned; ts: Date.now() of the
\* createOptimized calls; wrote: the keys written; entry: historyEntry;
\* history: the list storeTempHistory read; fault: an operation of this
\* invocation failed
SlotC(pc, start) ==
    [pc |-> pc, start |-> start, raws |-> AllRawsNull, ts |-> start, called |-> {},
     wrote |-> {}, entry |-> Null, history |-> <<>>, storeErr |-> FALSE,
     histErr |-> FALSE, fault |-> FALSE]

\* the response of a refresh.  fetched: what the four fetches returned;
\* ok: the sources that returned data; storeErr: the connection, a source's
\* setEx or quit() failed (the catch block ran); histErr: the history read
\* or write failed (caught and logged); point: the history entry built;
\* read: the list storeTempHistory read; opened: connect() resolved; sent:
\* the responses sent; quits: the quit() calls made
ResC(status, slot, storeErr, sent, quits) ==
    [op |-> "refresh", status |-> status, time |-> now, start |-> slot.start,
     fetched |-> slot.raws, ts |-> slot.ts,
     ok |-> IF slot.called = {} \/ Optimized(slot.raws, slot.ts).forecast = Throws
            THEN {} ELSE Stored(Optimized(slot.raws, slot.ts)),
     called |-> slot.called, wrote |-> slot.wrote, storeErr |-> storeErr,
     histErr |-> slot.histErr, point |-> slot.entry, read |-> slot.history,
     opened |-> slot.pc \notin {"idle", "connect"}, sent |-> sent, quits |-> quits]

\* POST, or ?action=refresh, up to the first await: the secret is compared,
\* then getRedisClient() is called
ArriveC(i, authOk) ==
    /\ impl = "C"
    /\ FreeSlot(i)
    /\ nref + Cardinality({j \in Invocations :
                              flight.run[j].pc \notin {"idle"} \cup ReadPcs}) < MaxRefreshes
    /\ IF ~authOk
       THEN /\ res' = ResC(401, SlotC("idle", now), FALSE, 1, 0)
            /\ UNCHANGED flight
       ELSE /\ flight' = [flight EXCEPT !.run[i] = SlotC("connect", now)]
            /\ UNCHANGED res
    /\ UNCHANGED <<impl, now, env, redis, nref, client, mem>>

\* the slot of an invocation that has answered: free again, or kept when two
\* invocations were started together
Finished(slot) == IF flight.pc = "overlap" THEN [slot EXCEPT !.pc = "done"] ELSE Idle

\* connect() of getRedisClient settles: a rejection leaves redis unassigned,
\* the catch block answers 500 without quit(); else the four fetches start
ConnectedC(i, connectOk) ==
    /\ impl = "C"
    /\ flight.run[i].pc = "connect"
    /\ IF ~connectOk
       THEN /\ res' = ResC(500, flight.run[i], TRUE, 1, 0)
            /\ flight' = [flight EXCEPT !.run[i] = Finished(@)]
       ELSE /\ flight' = [flight EXCEPT !.run[i].pc = "fetch"]
            /\ UNCHANGED res
    /\ UNCHANGED <<impl, now, env, redis, nref, client, mem>>

\* Promise.all of the four fetches settles; the data is optimised (a throw
\* goes to the catch block) and one setEx per source that returned data is
\* issued
FetchedC(i, raws) ==
    /\ impl = "C"
    /\ flight.run[i].pc = "fetch"
    /\ LET data == Optimized(raws, now)
       IN  flight' = [flight EXCEPT
                        !.run[i].raws = raws,
                        !.run[i].ts = now,
                        !.run[i].called = SourcesC,
                        !.run[i].pc = IF data.forecast = Throws THEN "catch"
                                      ELSE IF Stored(data) = {} THEN "quit"
                                      ELSE "set"]
    /\ UNCHANGED <<impl, now, env, redis, res, nref, client, mem>>

\* Promise.all of the setEx calls settles.  failKey: the source whose setEx
\* fails ("none": no write fails); the other entries are written.  A failure
\* goes to the catch block; else storeTempHistory is called when the sensor
\* or the resort returned data, and builds its entry
SetAnsweredC(i, failKey) ==
    /\ impl = "C"
    /\ flight.run[i].pc = "set"
    /\ LET slot == flight.run[i]
           data == Optimized(slot.raws, slot.ts)
           written == Stored(data) \ {failKey}
       IN  /\ redis' = [k \in KeysC |->
                          IF \E s \in written : KeyC[s] = k
                          THEN [val |-> data[CHOOSE s \in written : KeyC[s] = k],
                                exp |-> now + TTL]
                          ELSE redis[k]]
           /\ flight' = [flight EXCEPT !.run[i] =
                  [slot EXCEPT
                     !.wrote = {KeyC[s] : s \in written},
                     !.storeErr = failKey \in Stored(data),
                     !.fault = @ \/ failKey \in Stored(data),
                     !.entry = IF failKey \notin Stored(data) /\ HasTemperatureSource(data)
                               THEN HistoryEntry(TempOf(data, "homey", "temp"),
                                                 TempOf(data, "hafjell", "top"),
                                                 TempOf(data, "hafjell", "bottom"), now)
                               ELSE Null,
                     !.pc = IF failKey \in Stored(data) THEN "catch"
                            ELSE IF HasTemperatureSource(data) THEN "histGet"
                            ELSE "quit"]]
    /\ UNCHANGED <<impl, now, env, res, nref, client, mem>>

\* redis.get(temp:history) of storeTempHistory answers: the list is parsed
\* and the setEx issued; an error is caught and logged
HistoryRead(i, histGetOk) ==
    /\ impl = "C"
    /\ flight.run[i].pc = "histGet"
    /\ flight' = IF histGetOk
                 THEN [flight EXCEPT !.run[i].pc = "histSet",
                                     !.run[i].history = HistoryOf(redis, now)]
                 ELSE [flight EXCEPT !.run[i].pc = "quit",
                                     !.run[i].histErr = TRUE,
                                     !.run[i].fault = TRUE]
    /\ UNCHANGED <<impl, now, env, redis, res, nref, client, mem>>

\* redis.setEx(temp:history) of storeTempHistory answers: the list read,
\* with the entry pushed and the cap applied, is stored; an error is caught
\* and logged
HistoryWrite(i, histSetOk) ==
    /\ impl = "C"
    /\ flight.run[i].pc = "histSet"
    /\ IF histSetOk
       THEN /\ redis' = SetEx(redis, HISTORY_KEY, HISTORY_TTL,
                              [list |-> PushCapped(flight.run[i].history,
                                                   flight.run[i].entry)],
                              now)
            /\ flight' = [flight EXCEPT !.run[i].pc = "quit",
                                        !.run[i].wrote = @ \cup {HISTORY_KEY}]
       ELSE /\ flight' = [flight EXCEPT !.run[i].pc = "quit",
                                        !.run[i].histErr = TRUE,
                                        !.run[i].fault = TRUE]
            /\ UNCHANGED redis
    /\ UNCHANGED <<impl, now, env, res, nref, client, mem>>

\* redis.quit() settles and the handler answers: 200 after the quit() of
\* the try block; when that rejects, or on the catch path, the catch block
\* calls quit() and answers 500; a rejection of the quit() of the catch
\* block is caught by nothing and no response is sent
RespondC(i, quitOk, catchQuitOk) ==
    /\ impl = "C"
    /\ flight.run[i].pc \in {"quit", "catch"}
    /\ LET slot == flight.run[i]
       IN  /\ res' = IF slot.pc = "quit" /\ quitOk
                     THEN ResC(200, slot, FALSE, 1, 1)
                     ELSE ResC(IF catchQuitOk THEN 500 ELSE 0, slot,
                               slot.storeErr \/ slot.pc = "quit" \/ ~catchQuitOk,
                               IF catchQuitOk THEN 1 ELSE 0,
                               IF slot.pc = "quit" THEN 2 ELSE 1)
           /\ flight' = [flight EXCEPT !.run[i] = Finished(slot)]
           /\ nref' = IF slot.wrote # {} THEN nref + 1 ELSE nref
    /\ UNCHANGED <<impl, now, env, redis, client, mem>>

\* what the fetches return, as enumerated: all four sources answering,
\* each outcome of one source with the others answering, the sensor failing
\* with a resort page without the pattern, and all four failing
RawsC ==
    {[AllRawsOk EXCEPT !.homey = h] : h \in HomeyRaws}
    \cup {[AllRawsOk EXCEPT !.hafjell = h] : h \in HafjellRaws}
    \cup {[AllRawsOk EXCEPT !.forecast = f] : f \in YrRaws}
    \cup {[AllRawsOk EXCEPT !.lifts = l] : l \in LiftRaws}
    \cup {[AllRawsOk EXCEPT !.homey = Null,
                            !.hafjell = parseHafjellWeatherFromHTML([pattern |-> FALSE])],
          AllRawsNull}

\* the outcomes of a store operation of invocation i that are enumerated:
\* at most one operation of a request fails before the catch block
OutcomesC(i) ==
    IF impl = "C" /\ flight.run[i] # Idle /\ ~flight.run[i].fault THEN BOOLEAN ELSE {TRUE}

\* the setEx that may fail: the sensor's or the forecast's
FailKeysC(i) ==
    IF impl = "C" /\ flight.run[i] # Idle /\ ~flight.run[i].fault /\ flight.run[i].raws = AllRawsOk
    THEN {"none", "homey", "forecast"} ELSE {"none"}

ArriveCStep == \E i \in Invocations, authOk \in BOOLEAN : ArriveC(i, authOk)
\* a refresh request arriving while no other refresh is in flight
ArriveAloneStep == flight = NoFlights /\ \E authOk \in BOOLEAN : ArriveC(1, authOk)
ConnectedCStep == \E i \in Invocations, connectOk \in BOOLEAN : ConnectedC(i, connectOk)
FetchedCStep == \E i \in Invocations, raws \in RawsC : FetchedC(i, raws)
SetAnsweredCStep ==
    \E i \in Invocations :
        /\ impl = "C"
        /\ flight.run[i].pc = "set"
        /\ \E failKey \in FailKeysC(i) : SetAnsweredC(i, failKey)
HistoryReadStep ==
    \E i \in Invocations :
        /\ impl = "C"
        /\ flight.run[i].pc = "histGet"
        /\ \E histGetOk \in OutcomesC(i) : HistoryRead(i, histGetOk)
HistoryWriteStep ==
    \E i \in Invocations :
        /\ impl = "C"
        /\ flight.run[i].pc = "histSet"
        /\ \E histSetOk \in OutcomesC(i) : HistoryWrite(i, histSetOk)
RespondCStep ==
    \E i \in Invocations :
        /\ impl = "C"
        /\ flight.run[i].pc \in {"quit", "catch"}
        /\ \E quitOk \in OutcomesC(i), catchQuitOk \in BOOLEAN :
              /\ (flight.run[i].pc = "quit" /\ quitOk) => catchQuitOk
              /\ RespondC(i, quitOk, catchQuitOk)

\* the catch block of the GET branch: quit() in the catch when the client
\* was assigned, then the 500.  quits: the quit() calls made so far; sent:
\* the responses the handler sent (none when the quit() in the catch
\* rejects: nothing catches that)
CatchC(opened, quits, catchQuitOk) ==
    [op |-> "get", status |-> 500, storeErr |-> TRUE, called |-> {}, wrote |-> {},
     opened |-> opened,
     quits |-> IF opened THEN quits + 1 ELSE quits,
     sent |-> IF opened /\ ~catchQuitOk THEN 0 ELSE 1]

\* an invocation of GET ?action=get suspended at an await (pc in ReadPcs).
\* start: when the request arrived; data, tempHistory: what the get calls
\* returned; quits: the quit() calls that have settled
SlotG(pc, start) ==
    [pc |-> pc, start |-> start, data |-> [s \in SourcesC |-> Null],
     tempHistory |-> <<>>, quits |-> 0, fault |-> FALSE]

\* GET ?action=get up to its first await: getRedisClient() is called
ArriveGetC(i) ==
    /\ impl = "C"
    /\ FreeSlot(i)
    /\ \A j \in Invocations : flight.run[j].pc \notin ReadPcs
    /\ flight' = [flight EXCEPT !.run[i] = SlotG("rconnect", now)]
    /\ UNCHANGED <<impl, now, env, redis, res, nref, client, mem>>

\* connect() of getRedisClient settles: a rejection leaves redis unassigned
\* and the catch block answers 500 without quit(); else the five get calls
\* are issued together
ConnectedGetC(i, connectOk) ==
    /\ impl = "C"
    /\ flight.run[i].pc = "rconnect"
    /\ IF ~connectOk
       THEN /\ res' = CatchC(FALSE, 0, TRUE)
            /\ flight' = [flight EXCEPT !.run[i] = Idle]
       ELSE /\ flight' = [flight EXCEPT !.run[i].pc = "rget"]
            /\ UNCHANGED res
    /\ UNCHANGED <<impl, now, env, redis, nref, client, mem>>

\* Promise.all of the five get calls settles: the handler holds what the
\* store held at this moment and calls quit(); when a get rejected the catch
\* block calls quit()
GetsAnsweredC(i, getOk) ==
    /\ impl = "C"
    /\ flight.run[i].pc = "rget"
    /\ flight' = IF getOk
                 THEN [flight EXCEPT
                         !.run[i].pc = "rquit",
                         !.run[i].data = [s \in SourcesC |-> Get(redis, KeyC[s], now)],
                         !.run[i].tempHistory = HistoryOf(redis, now)]
                 ELSE [flight EXCEPT !.run[i].pc = "rcatch", !.run[i].fault = TRUE]
    /\ UNCHANGED <<impl, now, env, redis, res, nref, client, mem>>

\* the quit() of the try block settles: the values read are parsed (null
\* for an absent key, [] for the history) and sent with cached: true; when
\* quit() rejected or JSON.parse throws, the catch block calls quit() again
QuitAnsweredGetC(i, quitOk, parseOk) ==
    /\ impl = "C"
    /\ flight.run[i].pc = "rquit"
    /\ IF quitOk /\ parseOk
       THEN /\ res' = [op |-> "get", status |-> 200, storeErr |-> FALSE, cached |-> TRUE,
                       data |-> flight.run[i].data,
                       tempHistory |-> flight.run[i].tempHistory,
                       called |-> {}, wrote |-> {},
                       opened |-> TRUE, quits |-> 1, sent |-> 1]
            /\ flight' = [flight EXCEPT !.run[i] = Idle]
       ELSE /\ flight' = [flight EXCEPT !.run[i].pc = "rcatch", !.run[i].quits = 1,
                                        !.run[i].fault = TRUE]
            /\ UNCHANGED res
    /\ UNCHANGED <<impl, now, env, redis, nref, client, mem>>

\* the quit() of the catch block settles and the 500 is sent; when it
\* rejects nothing is sent
CatchAnsweredGetC(i, catchQuitOk) ==
    /\ impl = "C"
    /\ flight.run[i].pc = "rcatch"
    /\ res' = CatchC(TRUE, flight.run[i].quits, catchQuitOk)
    /\ flight' = [flight EXCEPT !.run[i] = Idle]
    /\ UNCHANGED <<impl, now, env, redis, nref, client, mem>>

\* the outcomes of an operation of the read i that are enumerated: a read
\* that fails touches no stored value, its failures are enumerated while no
\* refresh is in flight
OutcomesG(i) ==
    IF \A j \in Invocations : j # i => flight.run[j] = Idle THEN BOOLEAN ELSE {TRUE}

ArriveGetCStep == \E i \in Invocations : ArriveGetC(i)
\* a read arriving while no other request is in flight
ArriveGetCAloneStep == flight = NoFlights /\ ArriveGetC(1)
ConnectedGetCStep ==
    \E i \in Invocations :
        /\ impl = "C"
        /\ flight.run[i].pc = "rconnect"
        /\ \E connectOk \in OutcomesG(i) : ConnectedGetC(i, connectOk)
GetsAnsweredCStep ==
    \E i \in Invocations :
        /\ impl = "C"
        /\ flight.run[i].pc = "rget"
        /\ \E getOk \in OutcomesG(i) : GetsAnsweredC(i, getOk)
QuitAnsweredGetCStep ==
    \E i \in Invocations :
        /\ impl = "C"
        /\ flight.run[i].pc = "rquit"
        /\ \E quitOk \in OutcomesG(i), parseOk \in OutcomesG(i) :
              /\ quitOk \/ parseOk
              /\ QuitAnsweredGetC(i, quitOk, parseOk)
CatchAnsweredGetCStep ==
    \E i \in Invocations, catchQuitOk \in BOOLEAN : CatchAnsweredGetC(i, catchQuitOk)

\* a history as n earlier refreshes, 15 minutes apart, left it
Prefilled(n) ==
    [i \in 1..n |-> [ts |-> (i - n - 1) * TTL, h |-> Num(520), t |-> Num(1100), b |-> Num(2000)]]

\* a cold store
InitC ==
    /\ impl = "C"
    /\ now = 0
    /\ env = [production |-> TRUE]
    /\ redis = [k \in KeysC |-> Absent]
    /\ res = NoRes
    /\ nref = 0
    /\ client = "none"
    /\ flight = NoFlights
    /\ mem = NoMem

\* a store whose history is one short of full, or full
PrefillLens == {MAX_HISTORY - 1, MAX_HISTORY}

InitHistory ==
    /\ impl = "C"
    /\ now = 0
    /\ env = [production |-> TRUE]
    /\ \E n \in PrefillLens :
         redis = [k \in KeysC |->
                    IF k = HISTORY_KEY
                    THEN [val |-> [list |-> Prefilled(n)], exp |-> HISTORY_TTL - TTL]
                    ELSE Absent]
    /\ res = NoRes
    /\ nref = 0
    /\ client = "none"
    /\ flight = NoFlights
    /\ mem = NoMem

\* what the fetches of the history runs return: both temperature sources
\* answer, the sensor fails, both fail
HistoryRaws ==
    {AllRawsOk, [AllRawsOk EXCEPT !.homey = Null],
     [AllRawsOk EXCEPT !.homey = Null, !.hafjell = Null]}

FetchedHistoryStep == \E i \in Invocations, raws \in HistoryRaws : FetchedC(i, raws)

\* two refresh requests arrive together, authorised.  flight.base is the
\* stored list when they arrived; their slots are kept when they have
\* answered
RefreshArrive ==
    /\ impl = "C"
    /\ flight = NoFlights
    /\ nref = 0
    /\ flight' = [pc |-> "overlap",
                  base |-> HistoryOf(redis, now),
                  run |-> [i \in Invocations |-> SlotC("connect", now)]]
    /\ UNCHANGED <<impl, now, env, redis, res, nref, client, mem>>

(***************************************************************************)
(* part_000: one key, wk:weather:cache, holds the three sources together.  *)
(* A read that misses refreshes synchronously.                             *)
(***************************************************************************)
CACHE_KEY_W == "wk:weather:cache"
CACHE_TTL_W == 900
KeysW == {CACHE_KEY_W}

\* getRedisClient of part_000 up to its await: the memoized client, null
\* without REDIS_URL, else a new client that is memoized before connect() is
\* awaited.  client: "none", "connecting", "open", or "failed" (memoized,
\* connect() rejected)
GetRedisClientW(cl) ==
    IF cl # "none" THEN [client |-> cl, result |-> "client"]
    ELSE IF ~env.redisUrl THEN [client |-> cl, result |-> "null"]
    ELSE [client |-> "connecting", result |-> "connect"]

\* getHomeyData: catches its errors and returns a record with nulls and the
\* error message
GetHomeyData(ok, t) ==
    IF ok
    THEN [temperature |-> Or(Num(524), Null), humidity |-> Or(Num(5500), Null), timestamp |-> t]
    ELSE [temperature |-> Null, humidity |-> Null, timestamp |-> t, error |-> "Homey"]

\* getFnuggData / getYrForecast: throw when the upstream fails
GetFnuggData(t) == [top |-> [temperature |-> Str(1100)], bottom |-> [temperature |-> Str(2000)],
                    timestamp |-> t]
GetYrForecast(t) == [timeseries |-> "timeseries", timestamp |-> t]

\* cacheData of refreshCache: each adapter's record carries the time its
\* own upstream answered at (stamps), lastUpdate and nextUpdate the time t
\* at which Promise.all resolved
CacheData(ups, stamps, t) ==
    [hafjell |-> GetFnuggData(stamps.fnugg), yr |-> GetYrForecast(stamps.yr),
     homey |-> GetHomeyData(ups.homey, stamps.homey),
     lastUpdate |-> t, nextUpdate |-> t + CACHE_TTL_W]

AdaptersW == {"fnugg", "yr", "homey"}
NoUps == [fnugg |-> TRUE, yr |-> TRUE, homey |-> TRUE]
NoStamps == [a \in AdaptersW |-> Unset]

\* an invocation of part_000 suspended at an await.  pc: "connect" (connect()
\* inside getRedisClient), "get" (client.get), "fetch" (Promise.all of
\* refreshCache) or "set" (client.setEx); op: the action; refreshed: it has
\* called refreshCache; ups: which upstream answered; stamps: when each
\* upstream answered (Unset: not yet); data: cacheData; start: when the
\* request arrived
SlotW(pc, op, refreshed, ups, data) ==
    [pc |-> pc, op |-> op, refreshed |-> refreshed, ups |-> ups, data |-> data,
     stamps |-> NoStamps, start |-> now]

\* a response of part_000.  refreshes: calls of refreshCache; failed: the
\* adapters whose upstream failed; answered: the adapters whose upstream had
\* answered when the response was sent; storeErr: the client threw;
\* getErr: it threw on the read path before refreshCache
ResW(slot, status, body, storeErr, wrote) ==
    [op |-> slot.op, status |-> status, body |-> body,
     refreshes |-> IF slot.refreshed THEN 1 ELSE 0,
     failed |-> {a \in AdaptersW : ~slot.ups[a]},
     answered |-> {a \in AdaptersW : slot.stamps[a] # Unset},
     storeErr |-> storeErr,
     getErr |-> (slot.op = "get" /\ storeErr /\ ~slot.refreshed),
     called |-> IF slot.refreshed THEN AdaptersW ELSE {},
     wrote |-> wrote]

\* the body of the 200 after refreshCache(): the refresh action wraps it
BodyW(slot) ==
    IF slot.op = "refresh" THEN [success |-> TRUE, data |-> slot.data] ELSE slot.data

\* handler of part_000 up to its first await.  method: "GET" or "OPTIONS";
\* action: "refresh" or "get"
ArriveW(i, method, action, tokenOk) ==
    /\ impl = "W"
    /\ FreeSlot(i)
    /\ LET got == GetRedisClientW(client)
           fresh == SlotW("fetch", action, TRUE, NoUps, Null)
           direct == SlotW("done", action, FALSE, NoUps, Null)
       IN  IF method = "OPTIONS"
           THEN /\ res' = [ResW(direct, 200, Null, FALSE, {}) EXCEPT !.op = "options"]
                /\ UNCHANGED <<flight, client>>
           ELSE IF action = "refresh"
           THEN IF env.cacheAuthToken /\ ~tokenOk
                THEN /\ res' = ResW(direct, 401, Null, FALSE, {})
                     /\ UNCHANGED <<flight, client>>
                ELSE /\ flight' = [flight EXCEPT !.run[i] = fresh]
                     /\ UNCHANGED <<res, client>>
           ELSE /\ client' = got.client
                /\ flight' = [flight EXCEPT !.run[i] =
                                IF got.result = "null" THEN fresh
                                ELSE IF got.result = "connect"
                                THEN SlotW("connect", action, FALSE, NoUps, Null)
                                ELSE SlotW("get", action, FALSE, NoUps, Null)]
                /\ UNCHANGED res
    /\ UNCHANGED <<impl, now, env, redis, nref, mem>>

\* connect() of the client that invocation i created settles: on the read
\* path client.get is issued, inside refreshCache client.setEx; a rejection
\* is caught by the handler
ConnectedW(i, ok) ==
    /\ impl = "W"
    /\ flight.run[i].pc = "connect"
    /\ client' = IF ok THEN "open" ELSE "failed"
    /\ IF ok
       THEN /\ flight' = [flight EXCEPT !.run[i].pc =
                            IF flight.run[i].refreshed THEN "set" ELSE "get"]
            /\ UNCHANGED res
       ELSE /\ res' = ResW(flight.run[i], 500, Null, TRUE, {})
            /\ flight' = [flight EXCEPT !.run[i] = Idle]
    /\ UNCHANGED <<impl, now, env, redis, nref, mem>>

\* client.get(CACHE_KEY) of invocation i settles: a stored record is served,
\* a miss starts refreshCache, an error is caught (getOk FALSE: the command
\* rejected, or JSON.parse threw on a stored string that is not JSON).  A
\* command issued on a client that is still connecting waits for it
GetAnswerW(i, getOk) ==
    /\ impl = "W"
    /\ flight.run[i].pc = "get"
    /\ client \in {"open", "failed"}
    /\ IF client = "failed" \/ ~getOk
       THEN /\ res' = ResW(flight.run[i], 500, Null, TRUE, {})
            /\ flight' = [flight EXCEPT !.run[i] = Idle]
       ELSE IF Get(redis, CACHE_KEY_W, now) # Null
       THEN /\ res' = ResW(flight.run[i], 200, Get(redis, CACHE_KEY_W, now), FALSE, {})
            /\ flight' = [flight EXCEPT !.run[i] = Idle]
       ELSE /\ flight' = [flight EXCEPT !.run[i].pc = "fetch", !.run[i].refreshed = TRUE]
            /\ UNCHANGED res
    /\ UNCHANGED <<impl, now, env, redis, nref, client, mem>>

\* the upstream of adapter a of invocation i answers (ok) or fails, and the
\* adapter takes its timestamp.  Promise.all of refreshCache rejects as soon
\* as Fnugg or met.no fails (getHomeyData catches its failure) and resolves
\* when the last of the three has answered: cacheData is built and
\* getRedisClient is called; without REDIS_URL the data is returned unsaved
FetchedW(i, a, ok) ==
    /\ impl = "W"
    /\ flight.run[i].pc = "fetch"
    /\ flight.run[i].stamps[a] = Unset
    /\ LET got == GetRedisClientW(client)
           answered == [flight.run[i] EXCEPT !.ups[a] = ok, !.stamps[a] = now]
           slot == [answered EXCEPT !.data = CacheData(answered.ups, answered.stamps, now)]
       IN  IF ~ok /\ a \in {"fnugg", "yr"}
           THEN /\ res' = ResW(answered, 500, Null, FALSE, {})
                /\ flight' = [flight EXCEPT !.run[i] = Idle]
                /\ UNCHANGED client
           ELSE IF \E b \in AdaptersW : answered.stamps[b] = Unset
           THEN /\ flight' = [flight EXCEPT !.run[i] = answered]
                /\ UNCHANGED <<res, client>>
           ELSE IF got.result = "null"
           THEN /\ res' = ResW(slot, 200, BodyW(slot), FALSE, {})
                /\ flight' = [flight EXCEPT !.run[i] = Idle]
                /\ UNCHANGED client
           ELSE /\ client' = got.client
                /\ flight' = [flight EXCEPT !.run[i] =
                                [slot EXCEPT !.pc = IF got.result = "connect"
                                                    THEN "connect" ELSE "set"]]
                /\ UNCHANGED res
    /\ UNCHANGED <<impl, now, env, redis, nref, mem>>

\* client.setEx of invocation i settles and the handler answers: 200 with
\* the data, or 500 from the catch block when the command failed
SetAnswerW(i, setOk) ==
    /\ impl = "W"
    /\ flight.run[i].pc = "set"
    /\ client \in {"open", "failed"}
    /\ IF client = "failed" \/ ~setOk
       THEN /\ res' = ResW(flight.run[i], 500, Null, TRUE, {})
            /\ UNCHANGED redis
       ELSE /\ res' = ResW(flight.run[i], 200, BodyW(flight.run[i]), FALSE, {CACHE_KEY_W})
            /\ redis' = SetEx(redis, CACHE_KEY_W, CACHE_TTL_W, flight.run[i].data, now)
    /\ flight' = [flight EXCEPT !.run[i] = Idle]
    /\ UNCHANGED <<impl, now, env, nref, client, mem>>

ArriveWStep ==
    \E i \in Invocations, method \in {"GET", "OPTIONS"}, action \in {"refresh", "get"},
       tokenOk \in BOOLEAN :
        ArriveW(i, method, action, tokenOk)
\* a request arriving while no other is in flight
ArriveWAloneStep ==
    /\ flight = NoFlights
    /\ \E method \in {"GET", "OPTIONS"}, action \in {"refresh", "get"}, tokenOk \in BOOLEAN :
          ArriveW(1, method, action, tokenOk)
ConnectedWStep == \E i \in Invocations, ok \in BOOLEAN : ConnectedW(i, ok)
GetAnswerWStep == \E i \in Invocations, getOk \in BOOLEAN : GetAnswerW(i, getOk)
FetchedWStep == \E i \in Invocations, a \in AdaptersW, ok \in BOOLEAN : FetchedW(i, a, ok)
SetAnswerWStep == \E i \in Invocations, setOk \in BOOLEAN : SetAnswerW(i, setOk)

\* the platform recycles the idle process: module-level state is lost
ColdStart ==
    /\ impl = "W"
    /\ flight = NoFlights
    /\ client # "none"
    /\ client' = "none"
    /\ res' = NoRes
    /\ UNCHANGED <<impl, now, env, redis, nref, flight, mem>>

InitW ==
    /\ impl = "W"
    /\ now = 0
    /\ env \in [redisUrl : BOOLEAN, cacheAuthToken : BOOLEAN]
    /\ redis = [k \in KeysW |-> Absent]
    /\ res = NoRes
    /\ nref = 0
    /\ client = "none"
    /\ flight = NoFlights
    /\ mem = NoMem

(***************************************************************************)
(* part_003: the Homey sensor proxy with a cached current reading          *)
(* (homey_current) and a temperature history (homey_history).              *)
(***************************************************************************)
CACHE_KEY_H == "homey_current"
HISTORY_KEY_H == "homey_history"
CACHE_DURATION == 15 * 60
MAX_HISTORY_POINTS == 12
KeysH == {CACHE_KEY_H, HISTORY_KEY_H}

\* what the Homey cloud gives: "fail" (a request throws), or a device whose
\* temperature capability is absent or holds a number
UpsH == {"fail", "noTemp", "temp"}

\* fetchHomeyData of part_003: temperature rounded to one decimal, or null
FetchHomeyDataH(up) ==
    [temperature |-> IF up = "temp" THEN ParseFloat(ToFixed1(Num(524))) ELSE Null,
     source |-> "homey-pro"]

\* a read that applies the age limit also to the fallback read (variant of
\* GetCachedData, for C21)
GetCachedDataFreshOnly(store, ignoreExpiry, redisOk, t) ==
    IF ~redisOk THEN Null
    ELSE IF Get(store, CACHE_KEY_H, t) = Null THEN Null
    ELSE IF t - Get(store, CACHE_KEY_H, t).timestamp > CACHE_DURATION THEN Null
    ELSE Get(store, CACHE_KEY_H, t)

\* getCachedData(ignoreExpiry): null on a miss, on a Redis error, and, unless
\* ignoreExpiry, when the entry's timestamp is older than CACHE_DURATION
GetCachedData(store, ignoreExpiry, redisOk, t) ==
    IF ~redisOk THEN Null
    ELSE IF Get(store, CACHE_KEY_H, t) = Null THEN Null
    ELSE IF ~ignoreExpiry /\ t - Get(store, CACHE_KEY_H, t).timestamp > CACHE_DURATION THEN Null
    ELSE Get(store, CACHE_KEY_H, t)

\* getTemperatureHistory: [] on a miss or a Redis error
GetTemperatureHistory(store, redisOk, t) ==
    IF ~redisOk \/ Get(store, HISTORY_KEY_H, t) = Null THEN <<>>
    ELSE Get(store, HISTORY_KEY_H, t).list

\* array.splice(-2, 1): remove the element before the last
SpliceBeforeLast(h) == SubSeq(h, 1, Len(h) - 2) \o <<h[Len(h)]>>

\* the list updateHistory computes from the current list and the new point
UpdatedHistory(currentHistory, newPoint) ==
    LET added == Append(currentHistory, newPoint)
        shouldKeep == Len(added) % 4 = 0 \/ Len(added) <= MAX_HISTORY_POINTS
        thinned == IF ~shouldKeep /\ Len(added) > 1 THEN SpliceBeforeLast(added) ELSE added
    IN  IF Len(thinned) > MAX_HISTORY_POINTS
        THEN SubSeq(thinned, Len(thinned) - MAX_HISTORY_POINTS + 1, Len(thinned))
        ELSE thinned

\* setCachedData: setEx with twice CACHE_DURATION; an error is logged
SetCachedData(store, data, setOk, t) ==
    IF setOk THEN SetEx(store, CACHE_KEY_H, CACHE_DURATION * 2, data, t) ELSE store

\* an invocation of part_003 suspended at an await.  pc: "get"
\* (getCachedData), "fetch" (fetchHomeyData), "stale" (getCachedData(true)
\* in the catch block), "histGet" (getTemperatureHistory), "histSet" (the
\* setEx of updateHistory) or "set" (setCachedData); faults: the Redis
\* operations that failed so far; fresh: freshData; history: the list
\* updateHistory returns; body: responseData; wrote: the keys written;
\* start: when the request arrived
SlotH(pc, faults, fresh, history, body, wrote) ==
    [pc |-> pc, faults |-> faults, fresh |-> fresh, history |-> history,
     body |-> body, wrote |-> wrote, start |-> now]

\* a response of part_003.  hit: served from the fresh cached record;
\* faults: the Redis operations that failed (each is caught and logged);
\* upFail: the upstream was asked and its request threw
ResH(status, body, warning, hit, faults, called, wrote, upFail) ==
    [op |-> "get", status |-> status, body |-> body, warning |-> warning, hit |-> hit,
     faults |-> faults, called |-> called, wrote |-> wrote, upFail |-> upFail]

\* handler of part_003 up to its first await: the method, the settings,
\* then fetchHomeyData without REDIS_URL and getCachedData with it
ArriveH(i, method) ==
    /\ impl = "H"
    /\ FreeSlot(i)
    /\ nref + Cardinality({j \in Invocations : flight.run[j] # Idle}) < MaxRefreshes
    /\ IF method # "GET"
       THEN /\ res' = [op |-> "method", status |-> IF method = "OPTIONS" THEN 200 ELSE 405,
                       called |-> {}, wrote |-> {}]
            /\ UNCHANGED flight
       ELSE IF ~env.configured
       THEN /\ res' = ResH(500, Null, FALSE, FALSE, {}, {}, {}, FALSE)
            /\ UNCHANGED flight
       ELSE /\ flight' = [flight EXCEPT !.run[i] =
                            SlotH(IF env.redisUrl THEN "get" ELSE "fetch",
                                  {}, Null, <<>>, Null, {})]
            /\ UNCHANGED res
    /\ UNCHANGED <<impl, now, env, redis, nref, client, mem>>

\* getCachedData() of invocation i returns: a fresh record is served, else
\* fetchHomeyData is called
CachedReadH(i, getOk) ==
    /\ impl = "H"
    /\ flight.run[i].pc = "get"
    /\ LET cachedData == GetCachedData(redis, FALSE, getOk, now)
       IN  IF cachedData # Null
           THEN /\ res' = ResH(200, cachedData, FALSE, TRUE, {}, {}, {}, FALSE)
                /\ flight' = [flight EXCEPT !.run[i] = Idle]
           ELSE /\ flight' = [flight EXCEPT !.run[i].pc = "fetch",
                                            !.run[i].faults = IF getOk THEN {} ELSE {"get"}]
                /\ UNCHANGED res
    /\ UNCHANGED <<impl, now, env, redis, nref, client, mem>>

\* fetchHomeyData() of invocation i settles: a failure goes to the catch
\* block, which awaits getCachedData(true); a reading is answered at once
\* without REDIS_URL, else getTemperatureHistory is called
FetchedH(i, up) ==
    /\ impl = "H"
    /\ flight.run[i].pc = "fetch"
    /\ IF up = "fail"
       THEN /\ flight' = [flight EXCEPT !.run[i].pc = "stale"]
            /\ UNCHANGED res
       ELSE IF ~env.redisUrl
       THEN /\ res' = ResH(200, [current |-> FetchHomeyDataH(up), history |-> <<>>],
                           FALSE, FALSE, {}, {"homey"}, {}, FALSE)
            /\ flight' = [flight EXCEPT !.run[i] = Idle]
       ELSE /\ flight' = [flight EXCEPT !.run[i].pc = "histGet",
                                        !.run[i].fresh = FetchHomeyDataH(up)]
            /\ UNCHANGED res
    /\ UNCHANGED <<impl, now, env, redis, nref, client, mem>>

\* getCachedData(true) of the catch block returns: the stored record is
\* served with a warning, 500 without one.  Without REDIS_URL the client
\* cannot connect
StaleReadH(i, staleOk) ==
    /\ impl = "H"
    /\ flight.run[i].pc = "stale"
    /\ env.redisUrl \/ ~staleOk
    /\ LET staleData == GetCachedData(redis, TRUE, staleOk, now)
           faults == flight.run[i].faults \cup (IF staleOk THEN {} ELSE {"stale"})
       IN  res' = IF staleData # Null
                  THEN ResH(200, staleData, TRUE, FALSE, faults, {"homey"}, {}, TRUE)
                  ELSE ResH(500, Null, FALSE, FALSE, faults, {"homey"}, {}, TRUE)
    /\ flight' = [flight EXCEPT !.run[i] = Idle]
    /\ UNCHANGED <<impl, now, env, redis, nref, client, mem>>

\* the responseData of the handler
ResponseDataH(slot, history, t) ==
    [current |-> slot.fresh, history |-> [list |-> history], timestamp |-> t]

\* getTemperatureHistory() of invocation i returns and updateHistory runs
\* up to its await: for a null temperature it returns the list as it is and
\* setCachedData is called, else the new list is built and its setEx issued
HistoryReadH(i, histGetOk) ==
    /\ impl = "H"
    /\ flight.run[i].pc = "histGet"
    /\ LET history == GetTemperatureHistory(redis, histGetOk, now)
           newTemperature == flight.run[i].fresh.temperature
           faults == flight.run[i].faults \cup (IF histGetOk THEN {} ELSE {"histGet"})
       IN  flight' = [flight EXCEPT !.run[i] =
                        IF newTemperature = Null \/ newTemperature = Undefined
                        THEN [@ EXCEPT !.pc = "set", !.faults = faults, !.history = history,
                                       !.body = ResponseDataH(flight.run[i], history, now)]
                        ELSE [@ EXCEPT !.pc = "histSet", !.faults = faults,
                                       !.history = UpdatedHistory(history,
                                           [time |-> now,
                                            temperature |-> ParseFloat(newTemperature)])]]
    /\ UNCHANGED <<impl, now, env, redis, res, nref, client, mem>>

\* the setEx of updateHistory settles (an error is logged); responseData is
\* built and setCachedData is called
HistoryWriteH(i, histSetOk) ==
    /\ impl = "H"
    /\ flight.run[i].pc = "histSet"
    /\ redis' = IF histSetOk
                THEN SetEx(redis, HISTORY_KEY_H, HISTORY_TTL,
                           [list |-> flight.run[i].history], now)
                ELSE redis
    /\ flight' = [flight EXCEPT !.run[i] =
                    [@ EXCEPT !.pc = "set",
                              !.faults = @ \cup (IF histSetOk THEN {} ELSE {"histSet"}),
                              !.wrote = IF histSetOk THEN {HISTORY_KEY_H} ELSE {},
                              !.body = ResponseDataH(flight.run[i], flight.run[i].history, now)]]
    /\ UNCHANGED <<impl, now, env, res, nref, client, mem>>

\* setCachedData(responseData) settles and the handler answers 200
CacheWriteH(i, setOk) ==
    /\ impl = "H"
    /\ flight.run[i].pc = "set"
    /\ redis' = SetCachedData(redis, flight.run[i].body, setOk, now)
    /\ LET wrote == flight.run[i].wrote \cup (IF setOk THEN {CACHE_KEY_H} ELSE {})
       IN  /\ res' = ResH(200, flight.run[i].body, FALSE, FALSE,
                          flight.run[i].faults \cup (IF setOk THEN {} ELSE {"set"}),
                          {"homey"}, wrote, FALSE)
           /\ nref' = IF wrote # {} THEN nref + 1 ELSE nref
    /\ flight' = [flight EXCEPT !.run[i] = Idle]
    /\ UNCHANGED <<impl, now, env, client, mem>>

ArriveHStep ==
    \E i \in Invocations, method \in {"GET", "POST", "OPTIONS"} : ArriveH(i, method)
\* a request arriving while no other is in flight, or in the first period
ArriveHEarlyStep == (flight = NoFlights \/ now = 0) /\ ArriveHStep
\* a request arriving while no other is in flight
ArriveHAloneStep ==
    flight = NoFlights /\ \E method \in {"GET", "POST", "OPTIONS"} : ArriveH(1, method)
\* the outcomes of a Redis operation of invocation i that are enumerated:
\* at most one operation of a request fails
OutcomesH(i) ==
    IF impl = "H" /\ flight.run[i] # Idle /\ flight.run[i].faults = {} THEN BOOLEAN ELSE {TRUE}

CachedReadHStep == \E i \in Invocations, getOk \in BOOLEAN : CachedReadH(i, getOk)
FetchedHStep == \E i \in Invocations, up \in UpsH : FetchedH(i, up)
StaleReadHStep ==
    \E i \in Invocations, staleOk \in BOOLEAN :
        /\ impl = "H"
        /\ flight.run[i].pc = "stale"
        /\ staleOk \/ ~env.redisUrl \/ flight.run[i].faults = {}
        /\ StaleReadH(i, staleOk)
HistoryReadHStep == \E i \in Invocations : \E histGetOk \in OutcomesH(i) : HistoryReadH(i, histGetOk)
HistoryWriteHStep == \E i \in Invocations : \E histSetOk \in OutcomesH(i) : HistoryWriteH(i, histSetOk)
CacheWriteHStep == \E i \in Invocations : \E setOk \in OutcomesH(i) : CacheWriteH(i, setOk)

\* a history of n points as earlier requests, 15 minutes apart, left it,
\* the last one 10 minutes ago
PrefilledH(n) ==
    [i \in 1..n |-> [time |-> (i - n) * CACHE_DURATION - 600, temperature |-> Num(520)]]

PrefillLensH == {0, MAX_HISTORY_POINTS - 1, MAX_HISTORY_POINTS}

\* a cold store, or the store 10 minutes after a request cached a reading
InitH ==
    /\ impl = "H"
    /\ now = 0
    /\ env \in [configured : BOOLEAN, redisUrl : BOOLEAN]
    /\ \E n \in PrefillLensH :
         redis = IF n = 0
                 THEN [k \in KeysH |-> Absent]
                 ELSE [k \in KeysH |->
                        IF k = HISTORY_KEY_H
                        THEN [val |-> [list |-> PrefilledH(n)], exp |-> HISTORY_TTL - 600]
                        ELSE [val |-> [current |-> [temperature |-> Num(520),
                                                    source |-> "homey-pro"],
                                       history |-> [list |-> PrefilledH(n)],
                                       timestamp |-> 0 - 600],
                              exp |-> CACHE_DURATION * 2 - 600]]
    /\ res = NoRes
    /\ nref = 0
    /\ client = "none"
    /\ flight = NoFlights
    /\ mem = NoMem

(***************************************************************************)
(* The sensor endpoints that talk to the Homey cloud with a credential     *)
(* kept in module-level variables: api/homey.js ("O": OAuth refresh token, *)
(* getAccessToken identical in cached-data.js) and part_001 ("M": login    *)
(* with user name and password).  mem holds cachedAccessToken and          *)
(* tokenExpiry (seconds here, milliseconds in the code), for "M" also      *)
(* cachedHomeyId.  A credential is Str(n), n counting the credentials the  *)
(* cloud has issued.                                                       *)
(***************************************************************************)
TOKEN_BUFFER == 5 * 60
MANUAL_TOKEN_LIFE == 50 * 60
REQUEST_TIMEOUT_M == 15    \* timeout: 15000 of every request of part_001
LOGIN_REQUESTS_M == 6      \* the requests authenticateManually makes in turn
DEVICE_REQUESTS_M == 2     \* getDeviceData: temperature, then humidity
MaxMoments == 2            \* the waits of part_001 that are followed add up to
                           \* at most this many request timeouts

RequiredO == {"HOMEY_CLIENT_ID", "HOMEY_CLIENT_SECRET", "HOMEY_REFRESH_TOKEN",
              "HOMEY_DEVICE_ID_TEMP"}
RequiredM == {"HOMEY_CLIENT_ID", "HOMEY_CLIENT_SECRET", "HOMEY_USERNAME",
              "HOMEY_PASSWORD", "HOMEY_DEVICE_ID_TEMP"}

\* a configuration check that finds nothing missing (variant of MissingVars,
\* for C25)
NoneMissing(requiredEnvVars, e) == {}

\* requiredEnvVars.filter(varName => !process.env[varName])
MissingVars(requiredEnvVars, e) == {v \in requiredEnvVars : v \notin e.set}

EmptyO == [cachedAccessToken |-> Null, tokenExpiry |-> Null]
EmptyM == [cachedAccessToken |-> Null, cachedHomeyId |-> Null, tokenExpiry |-> Null]

\* what the token endpoint answers: not ok, or a token with its expires_in
TokenUps == {[ok |-> FALSE, expires_in |-> 0],
             [ok |-> TRUE, expires_in |-> 300],
             [ok |-> TRUE, expires_in |-> 900]}

\* a cache test that accepts the cached token until its recorded expiry
\* (variant of CachedTokenValid, for C23)
CachedTokenValidNoBuffer(m, t) ==
    /\ Truthy(m.cachedAccessToken) /\ Truthy(m.tokenExpiry)
    /\ m.tokenExpiry.num - t > 0

\* the cache test of getAccessToken (homey.js, cached-data.js): a token is
\* cached and its recorded expiry is more than 5 minutes after t = Date.now()
CachedTokenValid(m, t) ==
    /\ Truthy(m.cachedAccessToken) /\ Truthy(m.tokenExpiry)
    /\ m.tokenExpiry.num - t > TOKEN_BUFFER

\* the cache test of getAccessToken of part_001: a token and a Homey id are
\* cached and the recorded expiry has not passed
CachedTokenValidM(m, t) ==
    /\ Truthy(m.cachedAccessToken) /\ Truthy(m.cachedHomeyId) /\ Truthy(m.tokenExpiry)
    /\ t < m.tokenExpiry.num

\* a getAccessToken that forgets the cached token when the token request
\* fails (variant of GetAccessToken, for C28)
GetAccessTokenForgetful(m, t, up, n) ==
    IF ~up.ok
    THEN [threw |-> TRUE, value |-> Null, mem |-> EmptyO]
    ELSE [threw |-> FALSE, value |-> Str(n),
          mem |-> [cachedAccessToken |-> Str(n), tokenExpiry |-> Num(t + up.expires_in)]]

\* getAccessToken of homey.js and cached-data.js once the token endpoint has
\* answered.  m: the module's cache at that moment, t: the Date.now() taken
\* before the cache test, up: the answer, n: the token it issues
GetAccessToken(m, t, up, n) ==
    IF ~up.ok
    THEN [threw |-> TRUE, value |-> Null, mem |-> m]
    ELSE [threw |-> FALSE, value |-> Str(n),
          mem |-> [cachedAccessToken |-> Str(n), tokenExpiry |-> Num(t + up.expires_in)]]

\* authenticateManually of part_001 once the login requests have answered:
\* the token is cached for 50 minutes from t = Date.now() at the assignment,
\* or 'Authentication failed: ...' is thrown
AuthenticateManually(m, t, authOk, n) ==
    IF ~authOk
    THEN [threw |-> TRUE, value |-> Null, mem |-> m]
    ELSE [threw |-> FALSE, value |-> Str(n),
          mem |-> [cachedAccessToken |-> Str(n), cachedHomeyId |-> Str(1),
                   tokenExpiry |-> Num(t + MANUAL_TOKEN_LIFE)]]

\* what the cloud answers to a request made with the credential: the device
\* data, 401 Unauthorized, or another failure (another status, a response
\* that is not JSON, a request the network refuses)
ApiUps == {"ok", "401", "fail"}

\* the message of the error a failed request throws contains
\* 'Authentication' or '401'.  getDeviceData throws 'Device fetch failed:
\* <status> <statusText>', which holds '401' for the status 401; for
\* another failure it depends on the text (words): the reason phrase of
\* the response ('Network Authentication Required'), or the message of
\* node-fetch, which quotes the URL and with it the device id
Mentions(api, words) == api = "401" \/ (api = "fail" /\ words)

\* the texts an answer's error message can have: with or without one of
\* the two words
MessagesOf(api) == IF api = "fail" THEN BOOLEAN ELSE {api = "401"}

\* the catch block of part_001 clears the cache when the message of the
\* error contains 'Authentication' or '401'
ClearsCacheM(api, words) == api # "ok" /\ Mentions(api, words)

\* an invocation of a sensor endpoint suspended at an await.  pc: "token"
\* (the token request or the login is outstanding) or "api" (the requests
\* made with the credential are); at: Date.now() at the cache test; before:
\* the module's cache at the cache test; used: the credential in hand;
\* afterReject: the response sent last before this request arrived was a
\* failure on a 401 of the cloud; since: when the wait at pc began
SlotS(pc, at, before, used, fromCache) ==
    [pc |-> pc, at |-> at, before |-> before, used |-> used, fromCache |-> fromCache,
     afterReject |-> (res.op = "sensor" /\ res.rejected), since |-> at]

\* a response of a sensor endpoint.  missing: the settings the message
\* names; called: the upstreams asked ("token", "api"); fromCache: the
\* credential came from the cache; used: the credential sent to the cloud;
\* tokenErr: the token request failed; rejected: the cloud answered 401;
\* at, before: the time and the module's cache at the cache test
ResS(status, missing, called, slot, tokenErr, api) ==
    [op |-> "sensor", status |-> status, missing |-> missing, called |-> called,
     fromCache |-> slot.fromCache, used |-> slot.used, tokenErr |-> tokenErr,
     rejected |-> (api = "401"), at |-> slot.at, before |-> slot.before,
     afterReject |-> slot.afterReject]

\* the handlers of api/homey.js and part_001 up to their first await: the
\* configuration check, then the cache test of getAccessToken
SensorArrive(i) ==
    /\ impl \in {"O", "M"}
    /\ FreeSlot(i)
    /\ nref + Cardinality({j \in Invocations : flight.run[j].pc = "token"}) < MaxRefreshes
    /\ LET missingVars == MissingVars(IF impl = "O" THEN RequiredO ELSE RequiredM, env)
           hit == IF impl = "O" THEN CachedTokenValid(mem, now)
                  ELSE CachedTokenValidM(mem, now)
       IN  IF missingVars # {}
           THEN /\ res' = ResS(500, missingVars, {}, SlotS("done", now, mem, Null, FALSE),
                               FALSE, "none")
                /\ UNCHANGED flight
           ELSE /\ flight' = [flight EXCEPT !.run[i] =
                                IF hit THEN SlotS("api", now, mem, mem.cachedAccessToken, TRUE)
                                ELSE SlotS("token", now, mem, Null, FALSE)]
                /\ UNCHANGED res
    /\ UNCHANGED <<impl, now, env, redis, nref, client, mem>>

\* api/homey.js: the token endpoint answers invocation i
TokenAnswerO(i, up) ==
    /\ impl = "O"
    /\ flight.run[i].pc = "token"
    /\ LET g == GetAccessToken(mem, flight.run[i].at, up, nref + 1)
       IN  /\ mem' = g.mem
           /\ IF g.threw
              THEN /\ res' = ResS(500, {}, {"token"}, flight.run[i], TRUE, "none")
                   /\ flight' = [flight EXCEPT !.run[i] = Idle]
                   /\ UNCHANGED nref
              ELSE /\ flight' = [flight EXCEPT !.run[i].pc = "api", !.run[i].used = g.value,
                                               !.run[i].since = now]
                   /\ nref' = nref + 1
                   /\ UNCHANGED res
    /\ UNCHANGED <<impl, now, env, redis, client>>

\* part_001: the login of invocation i has answered; when it failed the
\* handler's catch block finds 'Authentication' in the message and clears
\* the cache
TokenAnswerM(i, authOk) ==
    /\ impl = "M"
    /\ flight.run[i].pc = "token"
    /\ LET g == AuthenticateManually(mem, now, authOk, nref + 1)
       IN  IF g.threw
           THEN /\ res' = ResS(500, {}, {"token"}, flight.run[i], TRUE, "none")
                /\ mem' = EmptyM
                /\ flight' = [flight EXCEPT !.run[i] = Idle]
                /\ UNCHANGED nref
           ELSE /\ mem' = g.mem
                /\ flight' = [flight EXCEPT !.run[i].pc = "api", !.run[i].used = g.value,
                                            !.run[i].since = now]
                /\ nref' = nref + 1
                /\ UNCHANGED res
    /\ UNCHANGED <<impl, now, env, redis, client>>

\* the requests made with the credential have answered and the response is
\* sent; the catch block of part_001 clears the cache when the error's
\* message holds one of its two words (words: whether the message of a
\* failure other than 401 does), that of homey.js never does
ApiAnswer(i, api, words) ==
    /\ impl \in {"O", "M"}
    /\ flight.run[i].pc = "api"
    /\ res' = ResS(IF api = "ok" THEN 200 ELSE 500, {},
                   (IF flight.run[i].fromCache THEN {} ELSE {"token"}) \cup {"api"},
                   flight.run[i], FALSE, api)
    /\ mem' = IF impl = "M" /\ ClearsCacheM(api, words) THEN EmptyM ELSE mem
    /\ flight' = [flight EXCEPT !.run[i] = Idle]
    /\ UNCHANGED <<impl, now, env, redis, nref, client>>

\* the longest a wait of part_001 lasts: each of its requests ends within
\* REQUEST_TIMEOUT_M, the login makes LOGIN_REQUESTS_M of them in turn and
\* the handler DEVICE_REQUESTS_M with the credential
WaitLimitM(pc) ==
    IF pc = "token" THEN LOGIN_REQUESTS_M * REQUEST_TIMEOUT_M
    ELSE DEVICE_REQUESTS_M * REQUEST_TIMEOUT_M

\* time passes while requests of part_001 are outstanding: the clock
\* advances by REQUEST_TIMEOUT_M as long as no wait exceeds its limit
Moment ==
    /\ impl = "M"
    /\ \E i \in Invocations : flight.run[i].pc \in {"token", "api"}
    /\ \A i \in Invocations :
          flight.run[i].pc \in {"token", "api"} =>
              now + REQUEST_TIMEOUT_M - flight.run[i].since <= WaitLimitM(flight.run[i].pc)
    /\ now % TickSeconds < MaxMoments * REQUEST_TIMEOUT_M
    /\ now' = now + REQUEST_TIMEOUT_M
    /\ UNCHANGED <<impl, env, redis, res, nref, client, flight, mem>>

SensorArriveStep == \E i \in Invocations : SensorArrive(i)
TokenAnswerOStep == \E i \in Invocations, up \in TokenUps : TokenAnswerO(i, up)
TokenAnswerMStep == \E i \in Invocations, authOk \in BOOLEAN : TokenAnswerM(i, authOk)
ApiAnswerStep ==
    \E i \in Invocations, api \in ApiUps :
        \E words \in MessagesOf(api) : ApiAnswer(i, api, words)

\* process.env: every setting present, or some missing
SensorEnvs == {[set |-> (RequiredO \cup RequiredM) \ gone] :
                 gone \in {{}, {"HOMEY_DEVICE_ID_TEMP"},
                           {"HOMEY_CLIENT_ID", "HOMEY_CLIENT_SECRET"},
                           {"HOMEY_REFRESH_TOKEN", "HOMEY_USERNAME"}}}

\* a cold process, or a warm one whose credential (issued as number 0)
\* has 10 minutes left on record
InitSensor ==
    /\ impl \in {"O", "M"}
    /\ now = 0
    /\ env \in SensorEnvs
    /\ redis = [k \in {} |-> Absent]
    /\ res = NoRes
    /\ nref = 0
    /\ client = "none"
    /\ flight = NoFlights
    /\ mem \in IF impl = "O"
               THEN {EmptyO, [cachedAccessToken |-> Str(0), tokenExpiry |-> Num(600)]}
               ELSE {EmptyM, [cachedAccessToken |-> Str(0), cachedHomeyId |-> Str(1),
                              tokenExpiry |-> Num(600)]}

(***************************************************************************)
(* part_002 ("X"): the sensor proxy, local API first, cloud API second.    *)
(* env.set holds the settings present: "device" (OUTDOOR_TEMP_DEVICE_ID),  *)
(* "humidity" (OUTDOOR_HUMIDITY_DEVICE_ID naming another device), "local"  *)
(* (HOMEY_LOCAL_URL and HOMEY_BEARER_TOKEN), "token"                       *)
(* (HOMEY_ACCESS_TOKEN), "homeyId" (HOMEY_ID).  An API answers "both" (a   *)
(* device with temperature and humidity), "temp" (temperature only),       *)
(* "empty" (a device without readings) or "fail" (not ok, or the fetch     *)
(* throws).                                                                *)
(***************************************************************************)
SettingsX == {"device", "humidity", "local", "token", "homeyId"}
DeviceOuts == {"both", "temp", "empty", "fail"}

\* extractSensorData on the device an API answered with
extractSensorData(out) ==
    [temperature |-> IF out \in {"both", "temp"} THEN Num(520) ELSE Null,
     humidity |-> IF out = "both" THEN Num(65) ELSE Null]

\* fetchHomeyLocal / fetchHomeyCloud: Null stands for the throw; the
\* separate humidity device is asked when it is configured and the first
\* device gave no humidity, and its failure is swallowed
fetchHomey(out, humOk, e) ==
    IF out = "fail" THEN Null
    ELSE LET data == extractSensorData(out)
         IN  IF "humidity" \in e /\ data.humidity = Null /\ humOk
             THEN [data EXCEPT !.humidity = Num(65)]
             ELSE data

\* the guard of the cloud attempt, with the local result in deviceData
TryCloudAlways(deviceData, e) == "token" \in e
TryCloud(deviceData, e) == deviceData = Null /\ "token" \in e

\* GET of part_002.  local, cloud: what each API would answer
HandlerX(local, cloud, humOk) ==
    /\ impl = "X"
    /\ res' =
         IF "device" \notin env.set
         THEN [op |-> "proxy", status |-> 500, apiUsed |-> "none", requested |-> {},
               local |-> local, cloud |-> cloud, data |-> Null]
         ELSE LET tryLocal == "local" \in env.set
                  afterLocal == IF tryLocal THEN fetchHomey(local, humOk, env.set) ELSE Null
                  tryCloud == TryCloud(afterLocal, env.set)
                  askCloud == tryCloud /\ "homeyId" \in env.set
                  deviceData == IF askCloud THEN fetchHomey(cloud, humOk, env.set)
                                ELSE afterLocal
                  apiUsed == IF askCloud /\ deviceData # Null THEN "cloud"
                             ELSE IF afterLocal # Null THEN "local" ELSE "none"
              IN  [op |-> "proxy",
                   status |-> IF deviceData = Null THEN 500 ELSE 200,
                   apiUsed |-> apiUsed,
                   requested |-> (IF tryLocal THEN {"local"} ELSE {}) \cup
                                 (IF askCloud THEN {"cloud"} ELSE {}),
                   local |-> local, cloud |-> cloud, data |-> deviceData]
    /\ UNCHANGED <<impl, now, env, redis, nref, client, flight, mem>>

HandlerXStep ==
    \E local \in DeviceOuts, cloud \in DeviceOuts, humOk \in BOOLEAN :
        HandlerX(local, cloud, humOk)

\* every combination of settings
InitProxy ==
    /\ impl = "X"
    /\ now = 0
    /\ env \in {[set |-> s] : s \in SUBSET SettingsX}
    /\ redis = [k \in {} |-> Absent]
    /\ res = NoRes
    /\ nref = 0
    /\ client = "none"
    /\ flight = Idle
    /\ mem = NoMem

\* an invocation is suspended at a wait that ends within seconds: the
\* Hafjell request of refresh-data.js and of part_006 carries
\* AbortSignal.timeout(10000), every request of part_001 timeout: 15000, and
\* a handler whose Promise.allSettled has settled answers at once (part_006
\* when it has no client to quit).  No other wait is bounded: the other
\* requests carry no timeout, and neither does a Redis command (the setex
\* after the Hafjell request and the quit() of part_006 included)
TimedWait ==
    \/ /\ impl = "R" /\ flight.pc = "fanout"
       /\ \/ 3 \in flight.pending /\ flight.stamp[3] = Unset
          \/ flight.pending = {}
    \/ /\ impl = "L" /\ flight.pc = "lazy"
       /\ \/ flight.run[3].pc = "upstream"
          \/ client = "none" /\ \A i \in Adapters : flight.run[i].pc = "done"
    \/ impl = "M" /\ \E i \in Invocations : flight.run[i].pc \in {"token", "api"}

\* when the invocations that are suspended arrived
Arrivals ==
    IF flight.pc \in {"fanout", "lazy"} THEN {flight.time}
    ELSE IF flight.pc \in {"slots", "overlap"}
    THEN {IF impl \in {"O", "M"} THEN flight.run[i].at ELSE flight.run[i].start :
             i \in {j \in Invocations : flight.run[j].pc \notin {"idle", "done"}}}
    ELSE {}

\* the clock advances by one scheduler period, also while an invocation is
\* suspended at a wait without a timeout (for at most MaxWait periods);
\* elapsed keys disappear and the last response is history
Tick ==
    /\ now < MaxTicks * TickSeconds
    /\ ~TimedWait
    /\ \A t \in Arrivals : now + TickSeconds - t <= MaxWait * TickSeconds
    /\ now' = now + TickSeconds
    /\ redis' = Expire(redis, now')
    /\ res' = NoRes
    /\ UNCHANGED <<impl, env, nref, client, flight, mem>>

InitR ==
    /\ impl = "R"
    /\ now = 0
    /\ env \in EnvsR
    /\ redis = [k \in KeysR |-> Absent]
    /\ res = NoRes
    /\ nref = 0
    /\ client = "none"
    /\ flight = Idle
    /\ mem = NoMem

\* the reader next to the refresh
NextR ==
    \/ FanoutStartPlainStep
    \/ AdapterFetchedStep \/ AdapterSettleStep
    \/ FanoutRespond
    \/ ReadRStep
    \/ Tick

SpecRefresh == InitR /\ [][NextR]_vars

NextC ==
    \/ ArriveAloneStep \/ ConnectedCStep \/ FetchedCStep \/ SetAnsweredCStep
    \/ HistoryReadStep \/ HistoryWriteStep \/ RespondCStep
    \/ ArriveGetCAloneStep \/ ConnectedGetCStep \/ GetsAnsweredCStep
    \/ QuitAnsweredGetCStep \/ CatchAnsweredGetCStep
    \/ Tick

SpecCached == InitC /\ [][NextC]_vars

NextHistory ==
    \/ ArriveAloneStep \/ ConnectedCStep \/ FetchedHistoryStep \/ SetAnsweredCStep
    \/ HistoryReadStep \/ HistoryWriteStep \/ RespondCStep
    \/ Tick

NextW ==
    \/ ArriveWAloneStep \/ ConnectedWStep \/ GetAnswerWStep
    \/ FetchedWStep \/ SetAnswerWStep
    \/ ColdStart
    \/ Tick

SpecWeather == InitW /\ [][NextW]_vars

\* part_000 with requests that overlap, all arriving in the first period
NextWeatherOverlap ==
    \/ now = 0 /\ ArriveWStep
    \/ ConnectedWStep \/ GetAnswerWStep
    \/ FetchedWStep \/ SetAnswerWStep
    \/ Tick

SpecWeatherOverlap == InitW /\ [][NextWeatherOverlap]_vars

NextH ==
    \/ ArriveHEarlyStep \/ CachedReadHStep \/ FetchedHStep \/ StaleReadHStep
    \/ HistoryReadHStep \/ HistoryWriteHStep \/ CacheWriteHStep
    \/ Tick

SpecHomey == InitH /\ [][NextH]_vars


SpecHistory == InitHistory /\ [][NextHistory]_vars

NextLazy ==
    \/ LazyStartStep
    \/ LazyUpstreamStep \/ LazyConnectedStep
    \/ LazyWriteStep \/ LazyWriteRefusedStep
    \/ LazyRespondStep
    \/ Tick

SpecLazy == InitLazy /\ [][NextLazy]_vars

NextPage ==
    \/ DOMContentLoaded \/ LoginSubmit \/ LoginAnswerStep
    \/ InitDashboardStep \/ InitDashboardResume
    \/ Logout \/ Period \/ ReloadStep

SpecPage == InitPage /\ [][NextPage]_vars

NextProxy == HandlerXStep \/ Tick

SpecProxy == InitProxy /\ [][NextProxy]_vars

NextSensor ==
    \/ SensorArriveStep
    \/ TokenAnswerOStep \/ TokenAnswerMStep
    \/ ApiAnswerStep
    \/ Moment
    \/ Tick

SpecSensor == InitSensor /\ [][NextSensor]_vars

\* the refresh alone, without the reader
NextFanout ==
    \/ FanoutStartStep
    \/ AdapterFetchedStep \/ AdapterSettleStep \/ AdapterTimeoutStep
    \/ FanoutRespond
    \/ Tick

SpecFanout == InitR /\ [][NextFanout]_vars

\* the event loop runs a continuation once its promise has settled, and a
\* timer once it is due
SpecFanoutFair ==
    /\ SpecFanout
    /\ WF_vars(AdapterFetchedStep)
    /\ WF_vars(AdapterSettleStep)
    /\ WF_vars(AdapterTimeoutStep)
    /\ WF_vars(FanoutRespond)

\* the three implementations that serve an aggregate read from the store
InitServe == InitC \/ InitW \/ InitH

NextServe ==
    \/ ArriveAloneStep \/ ConnectedCStep \/ FetchedHistoryStep \/ SetAnsweredCStep
    \/ HistoryReadStep \/ HistoryWriteStep \/ RespondCStep
    \/ ArriveGetCStep \/ ConnectedGetCStep \/ GetsAnsweredCStep
    \/ QuitAnsweredGetCStep \/ CatchAnsweredGetCStep
    \/ ArriveWAloneStep \/ ConnectedWStep \/ GetAnswerWStep
    \/ FetchedWStep \/ SetAnswerWStep \/ ColdStart
    \/ ArriveHAloneStep \/ CachedReadHStep \/ FetchedHStep \/ StaleReadHStep
    \/ HistoryReadHStep \/ HistoryWriteHStep \/ CacheWriteHStep
    \/ Tick

SpecServe == InitServe /\ [][NextServe]_vars

NextOverlap ==
    \/ RefreshArrive
    \/ ConnectedCStep \/ FetchedHistoryStep \/ SetAnsweredCStep
    \/ HistoryReadStep \/ HistoryWriteStep \/ RespondCStep
    \/ Tick

InitOverlap == InitC \/ InitHistory

SpecOverlap == InitOverlap /\ [][NextOverlap]_vars

\* every implementation: a deployment runs any one of them
Init == InitR \/ InitC \/ InitW \/ InitH

Next ==
    \/ FanoutStartStep \/ AdapterFetchedStep \/ AdapterSettleStep \/ AdapterTimeoutStep
    \/ FanoutRespond
    \/ ReadRStep
    \/ ArriveCStep \/ ConnectedCStep \/ FetchedCStep \/ SetAnsweredCStep
    \/ HistoryReadStep \/ HistoryWriteStep \/ RespondCStep
    \/ ArriveGetCStep \/ ConnectedGetCStep \/ GetsAnsweredCStep
    \/ QuitAnsweredGetCStep \/ CatchAnsweredGetCStep
    \/ ArriveWStep \/ ConnectedWStep \/ GetAnswerWStep
    \/ FetchedWStep \/ SetAnswerWStep \/ ColdStart
    \/ ArriveHStep \/ CachedReadHStep \/ FetchedHStep \/ StaleReadHStep
    \/ HistoryReadHStep \/ HistoryWriteHStep \/ CacheWriteHStep
    \/ Tick

Spec == Init /\ [][Next]_vars

(***************************************************************************)
(* Properties.                                                             *)
(***************************************************************************)
SingleTypes == {"forecast", "homey", "hafjell"}

\* C1: every refresh of refresh-data.js that reaches the adapter fan-out
\* (it answers 200) returns a summary whose results are exactly three
\* entries, for forecast, homey and hafjell in that order, whichever of the
\* adapters failed.
C1_ThreeResults ==
    (res.op = "refresh" /\ res.status = 200) =>
        /\ Len(res.results) = 3
        /\ \A i \in 1..3 : res.results[i].service = Services[i]

\* a refresh has answered with one adapter failed and another successful
C1_Witness ==
    /\ res.op = "refresh" /\ res.status = 200
    /\ \E i, j \in 1..Len(res.results) :
         res.results[i].success /\ ~res.results[j].success

\* C2: a refresh of part_000 in which exactly one upstream fails and the
\* other two have answered, with the store configured and working, answers
\* 200 and has written the cache.
C2_OneFailureOthersCached ==
    (/\ res.op \in {"refresh", "get"}
     /\ res.refreshes = 1
     /\ res.answered = AdaptersW
     /\ Cardinality(res.failed) = 1
     /\ ~res.storeErr
     /\ env.redisUrl) =>
        /\ res.status = 200
        /\ CACHE_KEY_W \in res.wrote
        /\ redis[CACHE_KEY_W].exp > now

\* C3: after a refresh has returned, every source whose adapter reported
\* success (refresh-data.js: success:true in the summary; cached-data.js: the
\* fetch returned data and the refresh answered 200) has an entry under its
\* key that is not expired and was written by this refresh.
C3_SuccessMeansFreshEntry ==
    /\ (impl = "R" /\ res.op = "refresh") =>
          \A i \in 1..Len(res.results) :
              res.results[i].success =>
                  LET k == KeyOf[res.results[i].service]
                  IN  /\ k \in res.wrote
                      /\ redis[k].exp > now
                      /\ redis[k].val # Null
                      /\ redis[k].val.timestamp >= res.start
                      /\ redis[k].val.timestamp <= res.time
    /\ (impl = "C" /\ res.op = "refresh" /\ res.status = 200) =>
          \A s \in res.ok :
              /\ KeyC[s] \in res.wrote
              /\ redis[KeyC[s]].exp > now
              /\ redis[KeyC[s]].val # Null
              /\ redis[KeyC[s]].val.ts >= res.start
              /\ redis[KeyC[s]].val.ts <= res.time

\* C4: a refresh of part_000 in which the sensor source fails leaves the
\* sensor's cached data and its expiry as they were.
C4_FailedSourceEntryKept ==
    [][(/\ res'.op = "refresh"
        /\ res'.refreshes = 1
        /\ "homey" \in res'.failed
        /\ redis[CACHE_KEY_W].exp > now) =>
           /\ redis'[CACHE_KEY_W].exp = redis[CACHE_KEY_W].exp
           /\ redis'[CACHE_KEY_W].val.homey = redis[CACHE_KEY_W].val.homey]_vars

\* C5: the list under temp:history never holds more than 48 entries, and a
\* storeTempHistory that read a list of 48 stores entries 2..48 of it in
\* their order followed by its new entry.
C5_HistoryCapped ==
    /\ [](Len(HistoryOf(redis, now)) <= MAX_HISTORY)
    /\ [][\A i \in Invocations :
            (/\ flight.run[i].pc = "histSet"
             /\ HISTORY_KEY \in flight'.run[i].wrote
             /\ Len(flight.run[i].history) = MAX_HISTORY) =>
                LET old == flight.run[i].history
                    new == HistoryOf(redis', now')
                IN  /\ Len(new) = MAX_HISTORY
                    /\ SubSeq(new, 1, MAX_HISTORY - 1) = SubSeq(old, 2, MAX_HISTORY)
                    /\ new[MAX_HISTORY] = flight.run[i].entry
                    /\ new[MAX_HISTORY].ts <= now]_vars

\* a refresh has appended to a full list and answered: the oldest prefilled
\* entry is gone, the newest prefilled entry is now the last but one
C5_Witness ==
    /\ res.op = "refresh" /\ HISTORY_KEY \in res.wrote
    /\ Len(res.read) = MAX_HISTORY
    /\ Len(HistoryOf(redis, now)) = MAX_HISTORY
    /\ HistoryOf(redis, now)[1] = Prefilled(MAX_HISTORY)[2]
    /\ HistoryOf(redis, now)[MAX_HISTORY - 1] = Prefilled(MAX_HISTORY)[MAX_HISTORY]
    /\ HistoryOf(redis, now)[MAX_HISTORY] = res.point

\* C6: the list under homey_history never holds more than 12 points, and an
\* updateHistory that was given a list of 12 builds points 2..12 of it in
\* their order followed by the new point.
C6_FullHistoryEvictsOldest ==
    /\ [](Len(GetTemperatureHistory(redis, TRUE, now)) <= MAX_HISTORY_POINTS)
    /\ [][\A i \in Invocations :
            (/\ impl = "H"
             /\ flight.run[i].pc = "histGet"
             /\ flight'.run[i].pc = "histSet"
             /\ "histGet" \notin flight'.run[i].faults
             /\ Len(GetTemperatureHistory(redis, TRUE, now)) = MAX_HISTORY_POINTS) =>
                LET old == GetTemperatureHistory(redis, TRUE, now)
                    new == flight'.run[i].history
                IN  /\ Len(new) = MAX_HISTORY_POINTS
                    /\ SubSeq(new, 1, MAX_HISTORY_POINTS - 1) = SubSeq(old, 2, MAX_HISTORY_POINTS)
                    /\ new[MAX_HISTORY_POINTS].time = now]_vars

\* C7: a ?action=get of cached-data.js that finds none of the four source
\* keys runs the refresh (all four fetches) and answers cached:false.
C7_ColdReadRefreshesOnce ==
    (/\ res.op = "get"
     /\ ~res.storeErr
     /\ \A s \in SourcesC : redis[KeyC[s]].exp <= now) =>
        /\ res.called = SourcesC
        /\ res.cached = FALSE

\* the entry a read of part_000 or part_003 serves is in the store and its
\* TTL has not elapsed
LiveEntry ==
    IF impl = "W" THEN redis[CACHE_KEY_W].exp > now
    ELSE IF impl = "H" THEN env.configured /\ env.redisUrl /\ redis[CACHE_KEY_H].exp > now
    ELSE FALSE

\* the response r carries the tag cached:true
TaggedCached(r) ==
    \/ "cached" \in DOMAIN r /\ r.cached = TRUE
    \/ "body" \in DOMAIN r /\ "cached" \in DOMAIN r.body /\ r.body.cached = TRUE

\* the get of invocation i of part_000 or part_003 is answered in this step
GetAnswered(i) ==
    /\ impl \in {"W", "H"}
    /\ flight.run[i].pc = "get"
    /\ flight'.run[i].pc # "get"

\* the get that was answered in this step had failed
GetFailed(i) ==
    IF flight'.run[i] = Idle
    THEN impl = "W" /\ res'.storeErr
    ELSE impl = "H" /\ "get" \in flight'.run[i].faults

\* C8: an aggregate read that finds an entry whose TTL has not elapsed is
\* answered from the store with the tag cached:true and calls no adapter.
\* The step checked is the one at which the read's get is answered
\* (part_000, part_003: the handler then answers or goes on to fetch), and
\* for cached-data.js the one at which the values read are sent.
C8_FreshReadTaggedCached ==
    [][\A i \in Invocations :
          /\ (/\ impl = "C"
              /\ flight.run[i].pc = "rquit"
              /\ flight'.run[i] = Idle
              /\ \E s \in SourcesC : flight.run[i].data[s] # Null) =>
                  (TaggedCached(res') /\ res'.called = {})
          /\ (GetAnswered(i) /\ ~GetFailed(i) /\ LiveEntry) =>
                  /\ flight'.run[i] = Idle
                  /\ TaggedCached(res')
                  /\ res'.called = {}]_vars

\* C9: a read of one source (type forecast, homey or hafjell) whose key
\* holds nothing, the store being reachable, answers 404, calls no adapter,
\* runs no refresh and leaves the store as it was.  The step checked is the
\* one that sends the read's response (res changes to a read response).
C9_AbsentSourceNotFound ==
    [][(/\ res' # res
        /\ res'.op = "read"
        /\ res'.type \in SingleTypes
        /\ ~res'.storeErr
        /\ redis[TypeKey(res'.type)].exp <= now) =>
           /\ res'.status = 404
           /\ res'.called = {} /\ res'.wrote = {}
           /\ redis' = redis]_vars

\* the sensor source was read and not found while the forecast was cached
C9_Witness ==
    /\ res.op = "read" /\ res.type = "homey" /\ res.status = 404
    /\ redis["homey_data"].exp <= now
    /\ redis["forecast_data"].exp > now

\* the field of the part_000 record that holds an adapter's data
FieldW == [fnugg |-> "hafjell", yr |-> "yr", homey |-> "homey"]

\* C10: an aggregate read of part_000 that refreshes (cold or expired cache,
\* store working) while at least one upstream answers sends a response that
\* carries the data of every upstream that answered.
C10_HealthySourceServed ==
    (/\ res.op = "get"
     /\ res.refreshes = 1
     /\ ~res.storeErr
     /\ res.answered = AdaptersW
     /\ res.failed # AdaptersW) =>
        /\ res.status = 200
        /\ \A a \in AdaptersW \ res.failed :
              /\ FieldW[a] \in DOMAIN res.body
              /\ "error" \notin DOMAIN res.body[FieldW[a]]

\* C11: a refresh request of refresh-data.js that does not carry the bearer
\* secret is answered 401, calls no adapter and writes nothing.
C11_NoSecretNoRefresh ==
    (res.op = "refresh" /\ ~res.auth) =>
        /\ res.status = 401
        /\ res.called = {}
        /\ res.wrote = {}

\* C12: a refresh of part_000 answers with a 5xx status only when the store
\* failed.
C12_ServerErrorOnlyStoreDown ==
    (res.op = "refresh" /\ res.status >= 500) => res.storeErr

\* C14: a refresh of cached-data.js that passed the gate, with the store
\* working, writes the history exactly when the sensor fetch or the resort
\* fetch returned data, whatever the forecast fetch returned, and what it
\* writes is the list it read with one point pushed (the oldest dropped at
\* the cap).
C14_OnePointPerTemperatureRefresh ==
    /\ []((/\ impl = "C"
           /\ res.op = "refresh"
           /\ res.status # 401
           /\ ~res.storeErr /\ ~res.histErr) =>
              (HISTORY_KEY \in res.wrote <=>
                  (res.fetched.homey # Null \/ res.fetched.hafjell # Null)))
    /\ [][\A i \in Invocations :
            (flight.run[i].pc = "histSet" /\ HISTORY_KEY \in flight'.run[i].wrote) =>
                HistoryOf(redis', now') =
                    PushCapped(flight.run[i].history, flight.run[i].entry)]_vars

\* C18: a source entry of refresh-data.js stays readable until two schedule
\* intervals after the refresh that wrote it, so that it outlives one missed
\* scheduled refresh.
C18_EntryOutlivesMissedRefresh ==
    [][(impl = "R" /\ now' > now) =>
          \A k \in KeysR :
              (/\ redis[k].exp > now
               /\ now' - redis[k].val.timestamp < 2 * TickSeconds) =>
                  redis'[k].exp > now']_vars

\* C19: a read of part_000 whose store get (connect or command) failed runs
\* the refresh and answers 200.
C19_GetFailureIsMiss ==
    (res.op = "get" /\ res.getErr) =>
        /\ res.refreshes = 1
        /\ res.called = AdaptersW
        /\ res.status = 200

\* C20: a read of part_000 that refreshed with the forecast and resort
\* upstreams answering, and whose cache write then failed, answers 200 with
\* the fresh data.
C20_WriteFailureStillServes ==
    (/\ res.op = "get"
     /\ res.refreshes = 1
     /\ res.failed \subseteq {"homey"}
     /\ res.storeErr) =>
        /\ res.status = 200
        /\ res.body # Null

\* C15: the point a refresh of cached-data.js appends carries in h the
\* sensor temperature fetched (to one decimal), in t and b the top and
\* bottom temperatures read from the resort page, and null for each
\* temperature the refresh could not obtain (sensor fetch failed or reading
\* missing; resort request failed or page without temperatures).
C15_PointCarriesFetchedTemperatures ==
    (/\ impl = "C"
     /\ res.op = "refresh"
     /\ HISTORY_KEY \in res.wrote) =>
        LET point == res.point
            hom == res.fetched.homey
            haf == res.fetched.hafjell
            pages == {p \in HafjellPages :
                        p.pattern /\ haf = parseHafjellWeatherFromHTML(p)}
        IN  /\ point.h = IF hom = Null \/ ~IsNum(hom.temperature)
                         THEN Null
                         ELSE Num(RoundTenth(hom.temperature.num))
            /\ IF pages = {}
               THEN point.t = Null /\ point.b = Null
               ELSE \A p \in pages : /\ point.t = Num(p.top.str)
                                     /\ point.b = Num(p.bottom.str)

\* both overlapping invocations have answered
BothDone == flight.pc = "overlap" /\ \A i \in Invocations : flight.run[i].pc = "done"

\* the last MAX_HISTORY elements of a list
LastPoints(s) ==
    IF Len(s) > MAX_HISTORY THEN SubSeq(s, Len(s) - MAX_HISTORY + 1, Len(s)) ELSE s

\* C13: when two overlapping refreshes of cached-data.js have both written
\* their history and answered, the stored history holds at most 48 points and is the list that was
\* stored when they arrived followed by one or both of their points, cut to
\* its last 48: the earlier points are unaltered and in order, and at most
\* one of the two new points is missing.
C13_OverlapLosesAtMostOnePoint ==
    (BothDone /\ \A i \in Invocations : HISTORY_KEY \in flight.run[i].wrote) =>
        LET stored == HistoryOf(redis, now)
            a == flight.run[1].entry
            b == flight.run[2].entry
        IN  /\ Len(stored) <= MAX_HISTORY
            /\ \E news \in {<<a>>, <<b>>, <<a, b>>, <<b, a>>} :
                  stored = LastPoints(flight.base \o news)

\* both have answered, onto a full list, and the point of one of them is
\* not in the stored list
C13_Witness ==
    /\ BothDone
    /\ \A i \in Invocations : HISTORY_KEY \in flight.run[i].wrote
    /\ Len(flight.base) = MAX_HISTORY
    /\ flight.run[1].entry # flight.run[2].entry
    /\ \E i \in Invocations :
          \A n \in 1..Len(HistoryOf(redis, now)) :
              HistoryOf(redis, now)[n] # flight.run[i].entry

\* C16: while an adapter of refresh-data.js has not settled, no source entry
\* is written: a step that leaves an adapter pending leaves every live entry
\* as it was.
C16_NoWriteBeforeAdaptersSettle ==
    [][(flight.pc = "fanout" /\ flight'.pc = "fanout" /\ flight'.pending # {}) =>
          \A k \in KeysR : redis'[k].exp > now' => redis'[k] = redis[k]]_vars

\* C17: a refresh of refresh-data.js that has started its adapters answers.
C17_RefreshAnswers ==
    (flight.pc = "fanout") ~> (flight.pc = "idle")

\* C21: a read of part_003 whose upstream request failed, with the store
\* configured and its fallback read working, is answered by that read: 200 with the stored
\* record and a warning when the store holds a record (also one older than
\* CACHE_DURATION), and 500 when it holds none.
C21_UpstreamFailureServesStale ==
    [][\A i \in Invocations :
          (/\ impl = "H"
           /\ flight.run[i].pc = "stale"
           /\ flight'.run[i] = Idle
           /\ env.redisUrl
           /\ "stale" \notin res'.faults) =>
              /\ res'.upFail
              /\ IF redis[CACHE_KEY_H].exp > now
                 THEN /\ res'.status = 200
                      /\ res'.warning
                      /\ res'.body = redis[CACHE_KEY_H].val
                 ELSE res'.status = 500]_vars

\* the upstream failed and a record older than CACHE_DURATION was served
C21_Witness ==
    /\ impl = "H"
    /\ res.op = "get"
    /\ res.upFail
    /\ res.status = 200 /\ res.warning
    /\ redis[CACHE_KEY_H].exp > now
    /\ res.body = redis[CACHE_KEY_H].val
    /\ now - res.body.timestamp > CACHE_DURATION

\* C22: a getCachedData of part_003 answered while the record written by
\* setCachedData is still in the store (its TTL has not elapsed), the get
\* succeeding, returns exactly that record and the handler answers with it.
C22_StoredRecordReadBack ==
    [][\A i \in Invocations :
          (/\ GetAnswered(i) /\ impl = "H"
           /\ ~GetFailed(i)
           /\ redis[CACHE_KEY_H].exp > now) =>
              /\ flight'.run[i] = Idle
              /\ res'.hit
              /\ res'.body = redis[CACHE_KEY_H].val]_vars

\* a sensor request that passed the configuration check
SensorRequest == res.op = "sensor" /\ res.missing = {}

\* C23 (as stated): a sensor request is served with the cached credential
\* only while the recorded expiry is more than 5 minutes ahead.
C23_CachedTokenHasFiveMinutes ==
    (SensorRequest /\ res.fromCache) =>
        res.before.tokenExpiry.num - res.at > TOKEN_BUFFER

\* C23 (amended): the cached credential is used only while its recorded
\* expiry is more than 5 minutes ahead in homey.js (and cached-data.js), and
\* only while the recorded expiry, set 50 minutes after the login, has not
\* passed in part_001; otherwise a new credential is requested and, unless
\* that request fails, it is cached with its new expiry when the request
\* answers and it is the one used.
C23_CachedTokenWhileValid ==
    /\ [](SensorRequest =>
            /\ res.fromCache =>
                  /\ res.used = res.before.cachedAccessToken
                  /\ Truthy(res.used)
                  /\ impl = "O" => res.before.tokenExpiry.num - res.at > TOKEN_BUFFER
                  /\ impl = "M" => res.at < res.before.tokenExpiry.num
            /\ ~res.fromCache => "token" \in res.called
            /\ (~res.fromCache /\ ~res.tokenErr) =>
                  res.used \notin {Null, res.before.cachedAccessToken})
    /\ [][\A i \in Invocations :
            (flight.run[i].pc = "token" /\ flight'.run[i].pc = "api") =>
                /\ flight'.run[i].used # Null
                /\ mem'.cachedAccessToken = flight'.run[i].used
                /\ impl = "O" =>
                      \E up \in TokenUps :
                          up.ok /\ mem'.tokenExpiry = Num(flight.run[i].at + up.expires_in)
                /\ impl = "M" => mem'.tokenExpiry = Num(now + MANUAL_TOKEN_LIFE)]_vars

\* homey.js held a credential that had not expired on record but had no
\* more than 5 minutes left, and requested a new one
C23_Witness ==
    /\ impl = "O"
    /\ SensorRequest
    /\ ~res.fromCache /\ ~res.tokenErr
    /\ Truthy(res.before.cachedAccessToken)
    /\ res.before.tokenExpiry.num > res.at

\* C24: a sensor request that arrived when the response sent last was a
\* failure on a 401 of the cloud does not take its credential from the
\* cache.
C24_RejectedCredentialNotReused ==
    (SensorRequest /\ res.afterReject) => ~res.fromCache

\* C25: a sensor request that arrives while a required setting is missing
\* is answered 500 with a message naming exactly the missing settings, asks
\* no upstream and leaves the cached credential as it was.
C25_MissingSettingFailsFast ==
    /\ []((/\ res.op = "sensor"
           /\ (IF impl = "O" THEN RequiredO ELSE RequiredM) \ env.set # {}) =>
              /\ res.status = 500
              /\ res.missing = (IF impl = "O" THEN RequiredO ELSE RequiredM) \ env.set
              /\ res.called = {})
    /\ [][(res'.op = "sensor" /\ res'.missing # {}) => mem' = mem]_vars

\* a request was refused for a missing setting while a credential was cached
C25_Witness ==
    /\ res.op = "sensor"
    /\ res.status = 500
    /\ res.missing # {}
    /\ Truthy(mem.cachedAccessToken)

\* C28: when the token request of getAccessToken (homey.js, cached-data.js)
\* fails, the call throws (the request is answered 500, no credential was
\* used) and the step leaves cachedAccessToken and tokenExpiry as they were.
C28_FailedRefreshKeepsCache ==
    [][\A i \in Invocations :
          (impl = "O" /\ flight.run[i].pc = "token" /\ flight'.run[i] = Idle) =>
              /\ res'.op = "sensor" /\ res'.tokenErr
              /\ res'.status = 500
              /\ res'.used = Null
              /\ mem' = mem]_vars

\* the token request failed while a credential was cached
C28_Witness ==
    /\ impl = "O"
    /\ SensorRequest /\ res.tokenErr
    /\ Truthy(mem.cachedAccessToken)

\* C26: in part_006 every setEx an adapter has issued was issued on a
\* client whose connect() had completed.
C26_WritesOnlyOnConnectedClient ==
    flight.pc = "lazy" =>
        \A i \in Adapters :
            flight.run[i].pc \in {"write", "done"} => flight.run[i].on \in {"none", "open"}

\* C27: every ?action=get and every refresh of cached-data.js ends with
\* exactly one response sent by the handler and, when it opened a
\* connection, exactly one quit() on it.
C27_OneResponseOneQuit ==
    (impl = "C" /\ res.op \in {"get", "refresh"}) =>
        /\ res.sent = 1
        /\ res.opened => res.quits = 1

\* C29: in one page session at most one auto-refresh interval is active,
\* and a 5-minute period starts refreshAllData from a timer at most once.
C29_AtMostOneRefreshTimer ==
    impl = "P" =>
        /\ mem.timers <= 1
        /\ res.op = "period" => res.started <= 1

\* the APIs that were requested in the last proxy response and answered
\* with a device
Produced ==
    {a \in res.requested : (IF a = "local" THEN res.local ELSE res.cloud) # "fail"}

\* C30: the proxy requests the cloud API only if the local API was not
\* configured or its request failed; a 200 names in apiUsed the API whose
\* device the answer carries; the answer is 500 exactly when no requested
\* API answered with a device.
C30_CloudOnlyAfterLocal ==
    (impl = "X" /\ res.op = "proxy") =>
        /\ "cloud" \in res.requested =>
               "local" \notin env.set \/ res.local = "fail"
        /\ res.status = 200 =>
               /\ Produced = {res.apiUsed}
               /\ res.data.temperature =
                      extractSensorData(IF res.apiUsed = "local"
                                        THEN res.local ELSE res.cloud).temperature
        /\ res.status = 500 <=> Produced = {}
        /\ res.status \in {200, 500}

\* the local API failed and the cloud API answered with a device
C30_Witness ==
    /\ impl = "X" /\ res.op = "proxy"
    /\ res.requested = {"local", "cloud"}
    /\ res.local = "fail"
    /\ res.status = 200 /\ res.apiUsed = "cloud"

====
